---- MODULE Spec2Model ----
(***************************************************************************)
(* Model of the APSS controller (the "Aggregator"): HTTP ingest handler,   *)
(* agent tracking, bounded event and alert queues, the detection engine,   *)
(* the alert retention store, the relay to the external sink and the agent *)
(* liveness sweep.                                                         *)
(*                                                                         *)
(* Time is counted in minutes (AgentStaleThreshold is 2 * time.Minute).    *)
(* Event ids are the naturals 1, 2, ... standing for the wire ids.         *)
(***************************************************************************)
EXTENDS Integers, Sequences, FiniteSets

VARIABLES
    cfg,          \* config.ControllerConfig the Controller was built from
    now,          \* the clock read by time.Now()
    agents,       \* Controller.agents: agent_id -> AgentInfo
    handlers,     \* the HTTP workers running Server.handleEvents: where each
                  \* is, its decoded event, the time.Now() IngestEvent read
    eventBuffer,  \* Controller.eventBuffer (buffered channel)
    evalPending,  \* evaluateEvent: alerts returned by Evaluate, not yet offered
    alertChan,    \* Controller.alertChan (buffered channel)
    alerts,       \* Controller.alerts (retention store)
    relays,       \* goroutines started by SendHighSeverityEvent, not yet run
    sinkCalls,    \* the objects Client.SendEvent has been invoked with
    requests,     \* number of requests received so far (source of fresh ids)
    response,     \* the request last answered and its status code
    evalIn,       \* detection engine harness: the event under evaluation
    evalOut,      \* detection engine harness: what Evaluate returned
    caller,       \* who built the Controller: cmd/controller main or a test
    mainPc,       \* where the caller's main goroutine is
    ctxDone,      \* whether the context given to Controller.Start is cancelled
    running,      \* the goroutines of Controller.Start that have not returned
    agentCaller,  \* who runs the sidecar agent's Monitor or EventCollector
    agentPc,      \* where the agent's main goroutine is
    agentCtxDone, \* whether the context given to Monitor.Start is cancelled
    started,      \* whether Monitor.Start has launched its goroutines
    monRunning,   \* the goroutines counted by Monitor.wg that have not returned
    stopChClosed, \* whether Monitor.stopCh is closed
    shutdown,     \* Monitor.Shutdown: where it is, whether Start was running
    deadline,     \* whether the context given to Monitor.Shutdown has expired
    endpoint,     \* collector.Config.ControllerEndpoint
    eventChan,    \* EventCollector.eventChan (buffered channel)
    collecting,   \* EventCollector.processEvent: where it is, its event, the
                  \* outcome of the last POST
    inflight,     \* the events whose POST is awaiting its response
    posts,        \* the events POSTed so far, in order
    eventsSent,   \* EventCollector.eventsSent
    eventsDropped,\* EventCollector.eventsDropped
    processed,    \* number of processEvent calls that have returned
    emitted,      \* number of events the monitors have tried to emit
    whIn,         \* webhook harness: the admission review submitted
    whOut,        \* webhook harness: what ProcessAdmissionReview returned
    procIn,       \* process monitor harness: the new process under analysis
    procOut,      \* process monitor harness: the event analyzeNewProcess built
    netIn,        \* network monitor harness: the /proc/net row under analysis
    netOut,       \* network monitor harness: what analyzeConnection emitted
    getIn,        \* GetAlerts harness: the alert store and the limit asked for
    getOut,       \* GetAlerts harness: the alerts returned
    sinkIn,       \* sink client harness: the client, the operation, the server
    sinkOut,      \* sink client harness: the requests made and the error returned
    fileIn,       \* file monitor harness: the file system event under analysis
    fileOut,      \* file monitor harness: the severity classifySeverity gave
    knownProcs,   \* ProcessMonitor.knownProcs (the pids of the prior snapshot)
    scanChan,     \* the event channel the two monitors send on
    procScans,    \* what each scanProcesses so far saw and offered
    knownConns,   \* NetworkMonitor.knownConns (the keys of the prior snapshot)
    netScans,     \* what each scanConnections so far saw and analysed
    admitted,     \* ids of the events IngestEvent has put on eventBuffer
    cancelled,    \* started relays whose request context has been cancelled
    delivered,    \* the objects whose POST to the sink was carried out
    fsys,         \* the watched file as os.Stat and os.Open find it now
    baseline,     \* FileMonitor.baseline: path -> FileHash
    fimLast,      \* the fsnotify event handleFsEvent handled last, what it
                  \* found on disk and in the baseline, the event it sent
    snapshot,     \* what a caller of GetAgents holds: the values at return
                  \* and the values its pointers read now
    calls,        \* IngestEvent calls per agent_id since its record was made
    pipe          \* one event on its way from a monitor to the sink

\* The controller process around the Controller
mainVars == <<caller, mainPc, ctxDone, running>>

\* The sidecar agent: Monitor, its sub-monitors and the EventCollector
agentVars == <<agentCaller, agentPc, agentCtxDone, started, monRunning,
               stopChClosed, shutdown, deadline, endpoint, eventChan,
               collecting, inflight, posts, eventsSent, eventsDropped,
               processed, emitted>>

\* The harness of the mutating admission webhook
webhookVars == <<whIn, whOut>>

\* The harnesses of the process monitor and of the network monitor
monitorVars == <<procIn, procOut, netIn, netOut>>

\* The harnesses of GetAlerts, of the sink client and of the file monitor
pureVars == <<getIn, getOut, sinkIn, sinkOut, fileIn, fileOut>>

\* The scan loops of the process monitor and of the network monitor
scanVars == <<knownProcs, procScans, knownConns, netScans, scanChan>>

\* The file monitor's baseline, the callers of GetAgents and IngestEvent, and
\* the path of one event from its monitor to the sink
lateVars == <<fsys, baseline, fimLast, snapshot, calls, pipe>>

harnessVars == <<pureVars, scanVars, lateVars>>

\* Everything outside the Controller and the engine harness
extVars == <<mainVars, agentVars, webhookVars, monitorVars, harnessVars>>

\* The Controller and the engine harness
\* What became of the events admitted and of the relays started
histVars == <<admitted, cancelled, delivered>>

ctrlVars == <<cfg, now, agents, handlers, eventBuffer, evalPending, alertChan,
              alerts, relays, sinkCalls, requests, response, evalIn, evalOut,
              histVars>>

vars == <<cfg, now, agents, handlers, eventBuffer, evalPending, alertChan,
          alerts, relays, sinkCalls, requests, response, evalIn, evalOut,
          histVars, extVars>>

-----------------------------------------------------------------------------
(* Bounds of the model *)

MaxEventBuf == 1    \* EventBufferSize of the modelled configs
MaxAlertBuf == 1    \* AlertBufferSize of the modelled configs
MaxRetention == 1   \* AlertRetentionCount of the default-like config
MaxTime == 3        \* the clock stops advancing here
MaxRequests == 2    \* requests received over a run
MaxIndicators == 2  \* length of suspicious_indicators in the engine harness
MaxEmit == 3        \* events the monitors try to emit over a run
CollectorBuf == 2   \* collector.Config.BufferSize of the modelled agent

(* Program constants *)
StaleThreshold == 2 \* AgentStaleThreshold: 2 * time.Minute

Handlers == {"h1", "h2"}
AgentIds == {"a1", "a2"}

-----------------------------------------------------------------------------
(* Types: SecurityEvent and its payloads.  A nil payload pointer is a      *)
(* record with present = FALSE.                                            *)

NoProcess == [present |-> FALSE, indicators |-> <<>>]
NoNetwork == [present |-> FALSE, is_external |-> FALSE, dst_port |-> 0]
NoFile == [present |-> FALSE, path |-> "", operation |-> ""]

Process(inds) == [present |-> TRUE, indicators |-> inds]
Network(ext, port) == [present |-> TRUE, is_external |-> ext, dst_port |-> port]
File(path, op) == [present |-> TRUE, path |-> path, operation |-> op]

\* An agent's events carry its pod: pod_name is "pod-" and the agent id,
\* written here as the agent id, and pod_namespace is "default".
SecurityEvent(id, agent, sev, proc, net, file) ==
    [id |-> id, agent_id |-> agent, severity |-> sev,
     pod_name |-> agent, pod_namespace |-> "default",
     process |-> proc, network |-> net, file |-> file]

NoEvent == SecurityEvent(0, "", "", NoProcess, NoNetwork, NoFile)

-----------------------------------------------------------------------------
(* Detection engine (package detection) *)

\* for _, x := range list { if x == v { return true } }
Contains(list, v) == \E i \in 1..Len(list) : list[i] = v

suspiciousPorts == {4444, 5555, 6666, 1337}
dbPorts == {3306, 5432, 27017, 6379, 9200}
criticalPaths == <<"/etc/passwd", "/etc/shadow", "/etc/sudoers">>

\* APSS-001 Potential Reverse Shell
ConditionReverseShell(e) ==
    IF ~e.network.present THEN FALSE
    ELSE e.network.is_external /\ e.network.dst_port \in suspiciousPorts

\* APSS-002 Cryptominer Detected
ConditionCryptominer(e) ==
    IF ~e.process.present THEN FALSE
    ELSE Contains(e.process.indicators, "possible_cryptominer")

\* Mutant of ConditionSensitiveFile: the operation is not looked at.
ConditionSensitiveFile_AnyOperation(e) ==
    IF ~e.file.present THEN FALSE
    ELSE \E i \in 1..Len(criticalPaths) : e.file.path = criticalPaths[i]

\* APSS-003 Sensitive File Modified
ConditionSensitiveFile(e) ==
    IF ~e.file.present THEN FALSE
    ELSE \E i \in 1..Len(criticalPaths) :
            e.file.path = criticalPaths[i] /\ e.file.operation = "modify"

\* APSS-004 Shell Spawned in Container
ConditionShellSpawn(e) ==
    IF ~e.process.present THEN FALSE
    ELSE Contains(e.process.indicators, "shell_spawn")

\* APSS-005 External Database Connection
ConditionDatabase(e) ==
    IF ~e.network.present THEN FALSE
    ELSE e.network.is_external /\ e.network.dst_port \in dbPorts

\* The rule list, in the order defaultRules builds it.
defaultRules ==
    << [id |-> "APSS-001", severity |-> "CRITICAL"],
       [id |-> "APSS-002", severity |-> "CRITICAL"],
       [id |-> "APSS-003", severity |-> "HIGH"],
       [id |-> "APSS-004", severity |-> "MEDIUM"],
       [id |-> "APSS-005", severity |-> "MEDIUM"] >>

\* rule.Condition(event) of the i-th rule
Condition(i, e) ==
    CASE i = 1 -> ConditionReverseShell(e)
      [] i = 2 -> ConditionCryptominer(e)
      [] i = 3 -> ConditionSensitiveFile(e)
      [] i = 4 -> ConditionShellSpawn(e)
      [] i = 5 -> ConditionDatabase(e)

\* A variant of NewAlert that leaves EventIDs empty
NewAlert_NoEventIDs(rule, e) ==
    [rule_id |-> rule.id, severity |-> rule.severity, event_ids |-> << >>,
     pod_name |-> e.pod_name, pod_ns |-> e.pod_namespace]

\* &types.Alert{...} built for a matching rule
NewAlert(rule, e) ==
    [rule_id |-> rule.id, severity |-> rule.severity, event_ids |-> <<e.id>>,
     pod_name |-> e.pod_name, pod_ns |-> e.pod_namespace]

\* Mutant of EvaluateFrom: matching alerts are collected last rule first.
RECURSIVE EvaluateFrom_Reversed(_, _, _)
EvaluateFrom_Reversed(rules, i, e) ==
    IF i > Len(rules) THEN <<>>
    ELSE EvaluateFrom_Reversed(rules, i + 1, e)
         \o (IF Condition(i, e) THEN <<NewAlert(rules[i], e)>> ELSE <<>>)

RECURSIVE EvaluateFrom(_, _, _)
EvaluateFrom(rules, i, e) ==
    IF i > Len(rules) THEN <<>>
    ELSE (IF Condition(i, e) THEN <<NewAlert(rules[i], e)>> ELSE <<>>)
         \o EvaluateFrom(rules, i + 1, e)

\* Engine.Evaluate: one alert per matching rule, in rule-list order
Evaluate(e) == EvaluateFrom(defaultRules, 1, e)

-----------------------------------------------------------------------------
(* Controller (package controller): pure parts *)

\* config.ControllerConfig literals: a test-like config sets only the two
\* buffer sizes and leaves every other field at its zero value; the
\* default-like config is DefaultControllerConfig with the sizes scaled down.
TestConfig ==
    [EventBufferSize |-> MaxEventBuf, AlertBufferSize |-> MaxAlertBuf,
     AgentStaleThreshold |-> 0, AlertRetentionCount |-> 0,
     SweetSecurityEnabled |-> FALSE]

DefaultControllerConfig(sinkEnabled) ==
    [EventBufferSize |-> MaxEventBuf, AlertBufferSize |-> MaxAlertBuf,
     AgentStaleThreshold |-> StaleThreshold, AlertRetentionCount |-> MaxRetention,
     SweetSecurityEnabled |-> sinkEnabled]

Configs == {TestConfig, DefaultControllerConfig(TRUE)}

\* c.sweetSecurity != nil (set by initSweetSecurity, never changed afterwards)
SinkConfigured(c) == c.SweetSecurityEnabled

\* A variant of UpdateAgent that creates the record with EventCount 0
UpdateAgent_CountFromZero(ag, e, t) ==
    IF e.agent_id \in DOMAIN ag
    THEN [ag EXCEPT ![e.agent_id].last_seen = t,
                    ![e.agent_id].event_count = @ + 1]
    ELSE [a \in DOMAIN ag \cup {e.agent_id} |->
            IF a = e.agent_id
            THEN [pod_name |-> e.pod_name, connected_at |-> t, last_seen |-> t,
                  event_count |-> 0]
            ELSE ag[a]]

\* Mutant of UpdateAgent: a new record is created without LastSeen, which
\* leaves it the zero time.
UpdateAgent_NoLastSeenOnCreate(ag, e, t) ==
    IF e.agent_id \in DOMAIN ag
    THEN [ag EXCEPT ![e.agent_id].last_seen = t,
                    ![e.agent_id].event_count = @ + 1]
    ELSE [a \in DOMAIN ag \cup {e.agent_id} |->
            IF a = e.agent_id
            THEN [pod_name |-> e.pod_name, connected_at |-> t, last_seen |-> 0,
                  event_count |-> 1]
            ELSE ag[a]]

\* IngestEvent, the section under agentsMu
UpdateAgent(ag, e, t) ==
    IF e.agent_id \in DOMAIN ag
    THEN [ag EXCEPT ![e.agent_id].last_seen = t,
                    ![e.agent_id].event_count = @ + 1]
    ELSE [a \in DOMAIN ag \cup {e.agent_id} |->
            IF a = e.agent_id
            THEN [pod_name |-> e.pod_name, connected_at |-> t, last_seen |-> t,
                  event_count |-> 1]
            ELSE ag[a]]

\* Mutant of CanSend: the capacity test is off by one.
CanSend_OffByOne(ch, capacity) == Len(ch) <= capacity

\* select { case ch <- x: ... default: ... }: whether the send case is ready
CanSend(ch, capacity) == Len(ch) < capacity

\* Mutant of AppendRetain: on overflow the first entries are kept, so the
\* newest alert is the one evicted.
AppendRetain_KeepOldest(store, alert, retention) ==
    LET s == Append(store, alert)
    IN  IF Len(s) > retention THEN SubSeq(s, 1, retention) ELSE s

\* processAlerts: append, then keep the last AlertRetentionCount entries
AppendRetain(store, alert, retention) ==
    LET s == Append(store, alert)
    IN  IF Len(s) > retention
        THEN SubSeq(s, Len(s) - retention + 1, Len(s))
        ELSE s

\* Mutant of IsStale: an agent exactly AgentStaleThreshold old is stale.
IsStale_AtThreshold(agent, t, threshold) == t >= agent.last_seen + threshold

\* checkAgentHealth: now.Sub(agent.LastSeen) > c.cfg.AgentStaleThreshold
IsStale(agent, t, threshold) == t > agent.last_seen + threshold

\* checkAgentHealth: the loop deleting stale agents
SweepAgents(ag, t, threshold) ==
    [a \in {x \in DOMAIN ag : ~IsStale(ag[x], t, threshold)} |-> ag[a]]

\* handleEvents: event.Severity == "CRITICAL" || event.Severity == "HIGH"
IsHighSeverity(sev) == sev = "CRITICAL" \/ sev = "HIGH"

\* Mutant of SweetEvent: the ID field is left at its zero value.
SweetEvent_NoID(e) ==
    [id |-> 0, agent_id |-> e.agent_id, severity |-> e.severity]

\* SendHighSeverityEvent: the sweetsecurity.Event built from the event
SweetEvent(e) ==
    [id |-> e.id, agent_id |-> e.agent_id, severity |-> e.severity]

\* A variant of GetAlerts that returns the oldest alerts of the store
GetAlerts_Oldest(store, limit) ==
    LET n == Len(store)
        lim == IF limit <= 0 \/ limit > n THEN n ELSE limit
    IN  SubSeq(store, 1, lim)

\* GetAlerts(limit)
GetAlerts(store, limit) ==
    LET n == Len(store)
        lim == IF limit <= 0 \/ limit > n THEN n ELSE limit
    IN  SubSeq(store, n - lim + 1, n)

-----------------------------------------------------------------------------------------------------------------------------------------------------
(* Requests the HTTP workers receive *)

\* The events clients post, before an id is attached.  The last is the body
\* {"agent_id":"a1","severity":"LOW"}: it names no payload, and the decoder
\* leaves the three payload pointers nil.
PostedEvents ==
    { SecurityEvent(0, "a1", "CRITICAL",
                    Process(<<"possible_cryptominer", "shell_spawn">>),
                    NoNetwork, NoFile),
      SecurityEvent(0, "a2", "INFO", Process(<<>>), NoNetwork, NoFile),
      SecurityEvent(0, "a1", "LOW", NoProcess, NoNetwork, NoFile),
      SecurityEvent(0, "a2", "HIGH", NoProcess, NoNetwork,
                    File("/etc/passwd", "modify")) }

\* Request bodies: the JSON of an event, or bytes that are not JSON.
NotJSON == [json |-> FALSE, event |-> NoEvent]
Bodies == {[json |-> TRUE, event |-> e] : e \in PostedEvents} \cup {NotJSON}

\* json.NewDecoder(r.Body).Decode(&event): ok is FALSE for a body that is not
\* JSON; a decoded body becomes the event carrying the request's fresh id.
Decode(body, id) ==
    IF ~body.json
    THEN [ok |-> FALSE, event |-> NoEvent]
    ELSE [ok |-> TRUE, event |-> [body.event EXCEPT !.id = id]]

\* The requests a worker may receive.  handleEvents never reads the body of
\* a request it refuses for its method, so one body stands for all of them.
Requests ==
    {[method |-> "POST", body |-> b] : b \in Bodies}
        \cup {[method |-> "GET", body |-> NotJSON]}

Idle == [pc |-> "idle", event |-> NoEvent, seen |-> 0]

\* http.Error / w.WriteHeader: the response written to a request
Answer(req, status) ==
    [method |-> req.method, json |-> req.body.json, status |-> status]

\* The POST request that carried event e
PostOf(e) == [method |-> "POST", body |-> [json |-> TRUE, event |-> e]]

-----------------------------------------------------------------------------
(* Initial state: the Controller as New and Start leave it *)

\* The goroutines Controller.Start launches
Workers == {"processEvents", "processAlerts", "checkAgentHealth"}

\* The Controller on its own, started and never cancelled
MainIdle ==
    /\ caller = "none"
    /\ mainPc = "serving"
    /\ ctxDone = FALSE
    /\ running = Workers

\* An optional JSON member: present with a value, or absent (or null)
Opt(v) == [present |-> TRUE, value |-> v]

NoList == [present |-> FALSE, value |-> << >>]
NoBool == [present |-> FALSE, value |-> FALSE]
NoMap == [present |-> FALSE, value |-> {}]

\* The pod document an admission request carries in Object.Raw, as the API
\* server serialises a Pod: metadata and spec are always there, containers
\* is a list or null, volumes, shareProcessNamespace and annotations are
\* there or not. decodable is FALSE for a document that is not a Pod.
PodDoc(containers, volumes, spn, annotations, hostNetwork) ==
    [decodable |-> TRUE, containers |-> containers, volumes |-> volumes,
     shareProcessNamespace |-> spn, annotations |-> annotations,
     hostNetwork |-> hostNetwork, ok |-> TRUE]

NotAPod ==
    [decodable |-> FALSE, containers |-> NoList, volumes |-> NoList,
     shareProcessNamespace |-> NoBool, annotations |-> NoMap,
     hostNetwork |-> FALSE, ok |-> TRUE]

\* An AdmissionReview body: with or without a request
Review(uid, kind, namespace, raw) ==
    [hasRequest |-> TRUE, uid |-> uid, kind |-> kind, namespace |-> namespace,
     raw |-> raw]

NoReview ==
    [hasRequest |-> FALSE, uid |-> "", kind |-> "", namespace |-> "",
     raw |-> NotAPod]

NoPatch == [present |-> FALSE, ops |-> << >>]

\* What ProcessAdmissionReview returns: an error, or a review whose response
\* has these fields
NoResponse ==
    [err |-> FALSE, uid |-> "", allowed |-> FALSE, patch |-> NoPatch,
     patchType |-> "", message |-> ""]

WebhookIdle ==
    /\ whIn = NoReview
    /\ whOut = [done |-> FALSE, response |-> NoResponse, submission |-> 1]

\* collector.Severity
SeverityUnknown == 0
SeverityInfo == 1
SeverityLow == 2
SeverityMedium == 3
SeverityHigh == 4
SeverityCritical == 5

\* A procmon.ProcessInfo as analyzeNewProcess looks at it: the name, the
\* leading arguments, and what the pattern matchers find in the whole
\* command line (which configured patterns and which reverse-shell
\* patterns match it, which miner names occur in the name or the command
\* line, which pool patterns match it).
ProcessInfo(name, cmdline, cfgMatched, rsMatched, minersFound, poolMatched) ==
    [name |-> name, cmdline |-> cmdline, cfgMatched |-> cfgMatched,
     rsMatched |-> rsMatched, minersFound |-> minersFound,
     poolMatched |-> poolMatched]

NoProcessInfo == ProcessInfo("", << >>, {}, {}, {}, {})

NoProcessEvent == [severity |-> SeverityUnknown, indicators |-> << >>]

\* A row of /proc/net/tcp, tcp6 or udp: the table, the bytes of the hex
\* remote address, the ports and the state
NetRow(table, local, localPort, remote, remotePort, state) ==
    [table |-> table, local |-> local, localPort |-> localPort,
     remote |-> remote, remotePort |-> remotePort, state |-> state]

NoRow == NetRow("", << >>, 0, << >>, 0, "")

NoNetworkEvent ==
    [emitted |-> FALSE, type |-> "", severity |-> SeverityUnknown,
     is_external |-> FALSE, is_suspicious_port |-> FALSE]

MonitorIdle ==
    /\ procIn = NoProcessInfo
    /\ procOut = [done |-> FALSE, event |-> NoProcessEvent]
    /\ netIn = NoRow
    /\ netOut = [done |-> FALSE, event |-> NoNetworkEvent]

GetIdle ==
    /\ getIn = [store |-> << >>, limit |-> 0, via |-> "none"]
    /\ getOut = [done |-> FALSE, alerts |-> << >>]

SinkIdle ==
    /\ sinkIn = [base |-> "", api_key |-> "", op |-> "none", status |-> 0]
    /\ sinkOut = [done |-> FALSE, requests |-> << >>, err |-> ""]

\* No event sent by handleFsEvent
NoFileEvent == [emitted |-> FALSE, operation |-> "", severity |-> SeverityUnknown]

FileIdle ==
    /\ fileIn = [path |-> << >>, op |-> {}]
    /\ fileOut = [done |-> FALSE, event |-> NoFileEvent]

ScanIdle ==
    /\ knownProcs = {}
    /\ procScans = << >>
    /\ knownConns = {}
    /\ netScans = << >>
    /\ scanChan = << >>

\* A path the stat call finds nothing at
AbsentFile ==
    [kind |-> "absent", content |-> "", size |-> 0, mode |-> "", mtime |-> 0,
     readable |-> FALSE]

\* A nil *FileHash
NoFileHash == [present |-> FALSE, hash |-> "", mode |-> "", mtime |-> 0, size |-> 0]

\* No collector.SecurityEvent with a FileEvent
NoBaselineEvent ==
    [emitted |-> FALSE, operation |-> "", severity |-> SeverityUnknown,
     old_hash |-> "", new_hash |-> ""]

BaselineIdle ==
    /\ fsys = AbsentFile
    /\ baseline = << >>
    /\ fimLast = [handled |-> FALSE, op |-> {}, seen |-> AbsentFile,
                  before |-> NoFileHash, event |-> NoBaselineEvent]

TrackIdle ==
    /\ snapshot = [taken |-> FALSE, at |-> << >>, cur |-> << >>, live |-> {}]
    /\ calls = << >>

PipeIdle == pipe = [stage |-> "none"]

LateIdle ==
    /\ BaselineIdle
    /\ TrackIdle
    /\ PipeIdle

\* No event admitted, no relay started
HistIdle ==
    /\ admitted = {}
    /\ cancelled = {}
    /\ delivered = {}

HarnessIdle ==
    /\ GetIdle
    /\ SinkIdle
    /\ FileIdle
    /\ ScanIdle
    /\ LateIdle

\* The goroutines Monitor.Start launches
MonWorkers == {"collector", "procMon", "netMon", "fileMon"}

\* The sub-monitors that put events on the collector's channel
Emitters == {"procMon", "netMon", "fileMon"}

NotCollecting ==
    [pc |-> "idle", event |-> [monitor |-> "", seq |-> 0], posted |-> FALSE,
     status |-> 0]

\* The agent as monitor.New leaves it, never started
AgentIdle ==
    /\ agentCaller = "none"
    /\ agentPc = "running"
    /\ agentCtxDone = FALSE
    /\ started = FALSE
    /\ monRunning = {}
    /\ stopChClosed = FALSE
    /\ shutdown = [pc |-> "none", whileStarted |-> FALSE]
    /\ deadline = FALSE
    /\ endpoint = "ctrl:8080"
    /\ eventChan = << >>
    /\ collecting = NotCollecting
    /\ inflight = {}
    /\ posts = << >>
    /\ eventsSent = 0
    /\ eventsDropped = 0
    /\ processed = 0
    /\ emitted = 0

Init ==
    /\ WebhookIdle
    /\ MonitorIdle
    /\ HarnessIdle
    /\ MainIdle
    /\ AgentIdle
    /\ cfg \in Configs
    /\ now = 0
    /\ agents = << >>
    /\ handlers = [h \in Handlers |-> Idle]
    /\ eventBuffer = << >>
    /\ evalPending = << >>
    /\ alertChan = << >>
    /\ alerts = << >>
    /\ relays = {}
    /\ sinkCalls = {}
    /\ HistIdle
    /\ requests = 0
    /\ response = [method |-> "", json |-> FALSE, status |-> 0]
    /\ evalIn = NoEvent
    /\ evalOut = [done |-> FALSE, alerts |-> << >>]

-----------------------------------------------------------------------------
(* Server.handleEvents, run by HTTP worker h *)

\* Mutant of HandleEventsBegin: the body is decoded before the method is
\* looked at.
HandleEventsBegin_DecodeFirst(h) ==
    /\ handlers[h].pc = "idle"
    /\ requests < MaxRequests
    /\ requests' = requests + 1
    /\ \E req \in Requests :
         LET d == Decode(req.body, requests + 1) IN
         IF ~d.ok
         THEN /\ response' = Answer(req, 400)
              /\ UNCHANGED <<extVars, agents, handlers>>
         ELSE IF req.method # "POST"
         THEN /\ response' = Answer(req, 405)
              /\ UNCHANGED <<extVars, agents, handlers>>
         ELSE /\ agents' = UpdateAgent(agents, d.event, now)
              /\ handlers' = [handlers EXCEPT
                                ![h] = [pc |-> "send", event |-> d.event,
                                        seen |-> now]]
              /\ UNCHANGED response
    /\ UNCHANGED <<extVars, cfg, now, eventBuffer, evalPending, alertChan, alerts,
                   relays, sinkCalls, histVars, evalIn, evalOut>>

\* Mutant of HandleEventsBegin: the agents map is updated only when the
\* event queue has room.
HandleEventsBegin_UpdateIfRoom(h) ==
    /\ handlers[h].pc = "idle"
    /\ requests < MaxRequests
    /\ requests' = requests + 1
    /\ \E req \in Requests :
         LET d == Decode(req.body, requests + 1) IN
         IF req.method # "POST"
         THEN /\ response' = Answer(req, 405)
              /\ UNCHANGED <<extVars, agents, handlers>>
         ELSE IF ~d.ok
         THEN /\ response' = Answer(req, 400)
              /\ UNCHANGED <<extVars, agents, handlers>>
         ELSE /\ agents' = IF CanSend(eventBuffer, cfg.EventBufferSize)
                           THEN UpdateAgent(agents, d.event, now)
                           ELSE agents
              /\ handlers' = [handlers EXCEPT
                                ![h] = [pc |-> "send", event |-> d.event,
                                        seen |-> now]]
              /\ UNCHANGED response
    /\ UNCHANGED <<extVars, cfg, now, eventBuffer, evalPending, alertChan, alerts,
                   relays, sinkCalls, histVars, evalIn, evalOut>>

\* Method check, decoding and IngestEvent's update of the agents map.
HandleEventsBegin(h) ==
    /\ handlers[h].pc = "idle"
    /\ requests < MaxRequests
    /\ requests' = requests + 1
    /\ \E req \in Requests :
         LET d == Decode(req.body, requests + 1) IN
         IF req.method # "POST"
         THEN /\ response' = Answer(req, 405)
              /\ UNCHANGED <<extVars, agents, handlers>>
         ELSE IF ~d.ok
         THEN /\ response' = Answer(req, 400)
              /\ UNCHANGED <<extVars, agents, handlers>>
         ELSE /\ agents' = UpdateAgent(agents, d.event, now)
              /\ handlers' = [handlers EXCEPT
                                ![h] = [pc |-> "send", event |-> d.event,
                                        seen |-> now]]
              /\ UNCHANGED response
    /\ UNCHANGED <<extVars, cfg, now, eventBuffer, evalPending, alertChan, alerts,
                   relays, sinkCalls, histVars, evalIn, evalOut>>

\* IngestEvent's non-blocking send on eventBuffer: 503 when it is full.
\* After a successful send, SendHighSeverityEvent for HIGH and CRITICAL
\* events (it starts the relay goroutine when a client is set, handing it
\* r.Context()), then w.WriteHeader(http.StatusAccepted) and the handler
\* returns.
HandleEventsSend(h) ==
    /\ handlers[h].pc = "send"
    /\ LET e == handlers[h].event IN
       IF CanSend(eventBuffer, cfg.EventBufferSize)
       THEN /\ eventBuffer' = Append(eventBuffer, e)
            /\ admitted' = admitted \cup {e.id}
            /\ relays' = IF IsHighSeverity(e.severity) /\ SinkConfigured(cfg)
                         THEN relays \cup {SweetEvent(e)}
                         ELSE relays
            /\ response' = Answer(PostOf(e), 202)
       ELSE /\ response' = Answer(PostOf(e), 503)
            /\ UNCHANGED <<extVars, eventBuffer, relays, admitted>>
    /\ handlers' = [handlers EXCEPT ![h] = Idle]
    /\ UNCHANGED <<extVars, cfg, now, agents, evalPending, alertChan, alerts,
                   sinkCalls, cancelled, delivered, requests, evalIn, evalOut>>

\* net/http cancels a request's context once its handler has returned: the
\* context a started relay holds becomes done.
RequestContextDone ==
    /\ \E r \in relays \ cancelled : cancelled' = cancelled \cup {r}
    /\ UNCHANGED <<extVars, cfg, now, agents, handlers, eventBuffer, evalPending,
                   alertChan, alerts, relays, sinkCalls, admitted, delivered,
                   requests, response, evalIn, evalOut>>

\* A relay goroutine runs: client.SendEvent is invoked with its object and
\* the context it was handed; httpClient.Do fails on a context that is done.
RelaySendEvent ==
    /\ \E r \in relays :
         /\ relays' = relays \ {r}
         /\ sinkCalls' = sinkCalls \cup {r}
         /\ delivered' = IF r \in cancelled
                         THEN delivered
                         ELSE delivered \cup {r}
         /\ cancelled' = cancelled \ {r}
    /\ UNCHANGED <<extVars, cfg, now, agents, handlers, eventBuffer, evalPending,
                   alertChan, alerts, admitted, requests, response, evalIn,
                   evalOut>>

-----------------------------------------------------------------------------
(* The Controller's goroutines *)

\* processEvents: receive one event and run the engine on it.
ProcessEvents ==
    /\ evalPending = << >>
    /\ eventBuffer # << >>
    /\ eventBuffer' = Tail(eventBuffer)
    /\ evalPending' = Evaluate(Head(eventBuffer))
    /\ UNCHANGED <<extVars, cfg, now, agents, handlers, alertChan, alerts, relays,
                   sinkCalls, histVars, requests, response, evalIn, evalOut>>

\* A variant of evaluateEvent with a blocking send: the alert waits until
\* alertChan has room.
EvaluateOffer_Blocking ==
    /\ evalPending # << >>
    /\ CanSend(alertChan, cfg.AlertBufferSize)
    /\ alertChan' = Append(alertChan, Head(evalPending))
    /\ evalPending' = Tail(evalPending)
    /\ UNCHANGED <<extVars, cfg, now, agents, handlers, eventBuffer, alerts, relays,
                   sinkCalls, histVars, requests, response, evalIn, evalOut>>

\* evaluateEvent: offer the next alert to alertChan, dropping it when full.
EvaluateOffer ==
    /\ evalPending # << >>
    /\ alertChan' = IF CanSend(alertChan, cfg.AlertBufferSize)
                    THEN Append(alertChan, Head(evalPending))
                    ELSE alertChan
    /\ evalPending' = Tail(evalPending)
    /\ UNCHANGED <<extVars, cfg, now, agents, handlers, eventBuffer, alerts, relays,
                   sinkCalls, histVars, requests, response, evalIn, evalOut>>

\* processAlerts: receive one alert and store it.  (The goroutine that
\* sendAlertToSweetSecurity starts touches nothing of the Controller.)
ProcessAlerts ==
    /\ alertChan # << >>
    /\ alerts' = AppendRetain(alerts, Head(alertChan), cfg.AlertRetentionCount)
    /\ alertChan' = Tail(alertChan)
    /\ UNCHANGED <<extVars, cfg, now, agents, handlers, eventBuffer, evalPending,
                   relays, sinkCalls, histVars, requests, response, evalIn, evalOut>>

\* checkAgentHealth: one firing of the ticker.
CheckAgentHealth ==
    /\ agents' = SweepAgents(agents, now, cfg.AgentStaleThreshold)
    /\ UNCHANGED <<extVars, cfg, now, handlers, eventBuffer, evalPending, alertChan,
                   alerts, relays, sinkCalls, histVars, requests, response, evalIn, evalOut>>

\* The clock advances.
Tick ==
    /\ now < MaxTime
    /\ now' = now + 1
    /\ UNCHANGED <<extVars, cfg, agents, handlers, eventBuffer, evalPending, alertChan,
                   alerts, relays, sinkCalls, histVars, requests, response, evalIn, evalOut>>

Next ==
    \/ \E h \in Handlers : HandleEventsBegin(h)
    \/ \E h \in Handlers : HandleEventsSend(h)
    \/ RequestContextDone
    \/ RelaySendEvent
    \/ ProcessEvents
    \/ EvaluateOffer
    \/ ProcessAlerts
    \/ CheckAgentHealth
    \/ Tick

Spec == Init /\ [][Next]_vars

\* The goroutines Start launches keep running, each worker finishes the
\* request it has begun, started relay goroutines run, and the ticker of
\* checkAgentHealth keeps firing.
FairSpec ==
    /\ Spec
    /\ \A h \in Handlers : WF_vars(HandleEventsSend(h))
    /\ WF_vars(RelaySendEvent)
    /\ WF_vars(ProcessEvents)
    /\ WF_vars(EvaluateOffer)
    /\ WF_vars(ProcessAlerts)
    /\ WF_vars(CheckAgentHealth)

-----------------------------------------------------------------------------
(* The controller process: cmd/controller main, or a test, around the       *)
(* Controller. main starts it with context.Background(), serves until a     *)
(* signal arrives, shuts the HTTP server down and returns; a test starts it *)
(* with a cancellable context and cancels it when it ends.                  *)

Callers == {"main", "test"}

MainInit ==
    /\ WebhookIdle
    /\ MonitorIdle
    /\ HarnessIdle
    /\ AgentIdle
    /\ caller \in Callers
    /\ mainPc = "serving"
    /\ ctxDone = FALSE
    /\ running = Workers
    /\ cfg = IF caller = "main" THEN DefaultControllerConfig(TRUE) ELSE TestConfig
    /\ now = 0
    /\ agents = << >>
    /\ handlers = [h \in Handlers |-> Idle]
    /\ eventBuffer = << >>
    /\ evalPending = << >>
    /\ alertChan = << >>
    /\ alerts = << >>
    /\ relays = {}
    /\ sinkCalls = {}
    /\ HistIdle
    /\ requests = 0
    /\ response = [method |-> "", json |-> FALSE, status |-> 0]
    /\ evalIn = NoEvent
    /\ evalOut = [done |-> FALSE, alerts |-> << >>]

\* The process is alive: main has not returned.
Alive == mainPc # "exited"

\* A request arrives while the server accepts requests.
MainHandleEventsBegin(h) == mainPc = "serving" /\ HandleEventsBegin(h)

\* A request in flight is finished, also during srv.Shutdown.
MainHandleEventsSend(h) == Alive /\ HandleEventsSend(h)

MainRelaySendEvent == Alive /\ RelaySendEvent
MainRequestContextDone == Alive /\ RequestContextDone

\* processEvents: the eventBuffer case of its select
MainProcessEvents == Alive /\ "processEvents" \in running /\ ProcessEvents

MainEvaluateOffer == Alive /\ "processEvents" \in running /\ EvaluateOffer

\* processAlerts: the alertChan case of its select
MainProcessAlerts == Alive /\ "processAlerts" \in running /\ ProcessAlerts

\* checkAgentHealth: the ticker case of its select
MainCheckAgentHealth == Alive /\ "checkAgentHealth" \in running /\ CheckAgentHealth

MainTick == Alive /\ Tick

\* main: SIGINT or SIGTERM arrives on sigChan.
Signal ==
    /\ caller = "main"
    /\ mainPc = "serving"
    /\ mainPc' = "signalled"
    /\ UNCHANGED <<cfg, now, agents, handlers, eventBuffer, evalPending,
                   alertChan, alerts, relays, sinkCalls, histVars, requests, response,
                   evalIn, evalOut, agentVars, webhookVars, monitorVars, harnessVars, caller, ctxDone, running>>

\* main: srv.Shutdown returns, within ShutdownTimeout, and main returns.
\* Nothing in main cancels the context Start was given.
MainExit ==
    /\ mainPc = "signalled"
    /\ mainPc' = "exited"
    /\ UNCHANGED <<cfg, now, agents, handlers, eventBuffer, evalPending,
                   alertChan, alerts, relays, sinkCalls, histVars, requests, response,
                   evalIn, evalOut, agentVars, webhookVars, monitorVars, harnessVars, caller, ctxDone, running>>

\* A test: the deferred cancel() of the context given to Start.
CancelCtx ==
    /\ caller = "test"
    /\ ~ctxDone
    /\ ctxDone' = TRUE
    /\ UNCHANGED <<cfg, now, agents, handlers, eventBuffer, evalPending,
                   alertChan, alerts, relays, sinkCalls, histVars, requests, response,
                   evalIn, evalOut, agentVars, webhookVars, monitorVars, harnessVars, caller, mainPc, running>>

\* The ctx.Done() case of a worker's select: the worker returns.
WorkerReturn(w) ==
    /\ Alive
    /\ ctxDone
    /\ w \in running
    /\ running' = running \ {w}
    /\ UNCHANGED <<cfg, now, agents, handlers, eventBuffer, evalPending,
                   alertChan, alerts, relays, sinkCalls, histVars, requests, response,
                   evalIn, evalOut, agentVars, webhookVars, monitorVars, harnessVars, caller, mainPc, ctxDone>>

MainNext ==
    \/ \E h \in Handlers : MainHandleEventsBegin(h)
    \/ \E h \in Handlers : MainHandleEventsSend(h)
    \/ MainRelaySendEvent
    \/ MainRequestContextDone
    \/ MainProcessEvents
    \/ MainEvaluateOffer
    \/ MainProcessAlerts
    \/ MainCheckAgentHealth
    \/ MainTick
    \/ Signal
    \/ MainExit
    \/ CancelCtx
    \/ \E w \in Workers : WorkerReturn(w)

MainSpec == MainInit /\ [][MainNext]_vars

-----------------------------------------------------------------------------
(* The sidecar agent: cmd/agent main around Monitor, the monitor test that  *)
(* shuts down a Monitor it never started, and the collector test that runs  *)
(* EventCollector.Start on its own and cancels its context at the end.      *)

AgentCallers == {"main", "monitor_test", "collector_test"}

\* "" is the unconfigured endpoint; "bad host" is one for which
\* http.NewRequestWithContext fails to parse the URL.
Endpoints == {"ctrl:8080", "", "bad host"}

\* What a POST can come back with: 202, another status, no response (0).
Statuses == {202, 503, 0}

AgentInit ==
    /\ MainIdle
    /\ WebhookIdle
    /\ MonitorIdle
    /\ HarnessIdle
    /\ cfg = TestConfig
    /\ now = 0
    /\ agents = << >>
    /\ handlers = [h \in Handlers |-> Idle]
    /\ eventBuffer = << >>
    /\ evalPending = << >>
    /\ alertChan = << >>
    /\ alerts = << >>
    /\ relays = {}
    /\ sinkCalls = {}
    /\ HistIdle
    /\ requests = 0
    /\ response = [method |-> "", json |-> FALSE, status |-> 0]
    /\ evalIn = NoEvent
    /\ evalOut = [done |-> FALSE, alerts |-> << >>]
    /\ agentCaller \in AgentCallers
    /\ agentPc = "running"
    /\ agentCtxDone = FALSE
    /\ started = (agentCaller = "collector_test")
    /\ monRunning = IF agentCaller = "collector_test" THEN {"collector"} ELSE {}
    /\ stopChClosed = FALSE
    /\ shutdown = [pc |-> "none", whileStarted |-> FALSE]
    /\ deadline = FALSE
    /\ endpoint \in Endpoints
    /\ eventChan = << >>
    /\ collecting = NotCollecting
    /\ inflight = {}
    /\ posts = << >>
    /\ eventsSent = 0
    /\ eventsDropped = 0
    /\ processed = 0
    /\ emitted = 0

\* The agent process is alive: main has not returned.
AgentAlive == agentPc # "exited"

\* Monitor.Start, run by the goroutine main starts: the four wg.Add(1) and
\* go statements; it then waits for ctx.Done().
MonitorStart ==
    /\ AgentAlive
    /\ agentCaller = "main"
    /\ ~started
    /\ started' = TRUE
    /\ monRunning' = MonWorkers
    /\ UNCHANGED <<ctrlVars, mainVars, webhookVars, monitorVars, harnessVars, agentCaller, agentPc, agentCtxDone,
                   stopChClosed, shutdown, deadline, endpoint, eventChan,
                   collecting, inflight, posts, eventsSent, eventsDropped,
                   processed, emitted>>

\* The non-blocking send of a sub-monitor: select on the channel, ctx.Done()
\* and default.
TrySend(ch, e, sent) ==
    IF sent THEN Append(ch, e) ELSE ch

\* A sub-monitor emits an event: it is put on the channel if there is room,
\* and dropped if there is none or the context is cancelled.
Emit(m) ==
    /\ AgentAlive
    /\ m \in monRunning
    /\ emitted < MaxEmit
    /\ emitted' = emitted + 1
    /\ \E sent \in BOOLEAN :
          /\ sent => Len(eventChan) < CollectorBuf
          /\ ~sent => (Len(eventChan) >= CollectorBuf \/ agentCtxDone)
          /\ eventChan' = TrySend(eventChan, [monitor |-> m, seq |-> emitted + 1], sent)
    /\ UNCHANGED <<ctrlVars, mainVars, webhookVars, monitorVars, harnessVars, agentCaller, agentPc, agentCtxDone,
                   started, monRunning, stopChClosed, shutdown, deadline,
                   endpoint, collecting, inflight, posts, eventsSent,
                   eventsDropped, processed>>

\* The collector test puts an event on EventChannel() (a blocking send).
TestPut ==
    /\ agentCaller = "collector_test"
    /\ emitted < MaxEmit
    /\ Len(eventChan) < CollectorBuf
    /\ emitted' = emitted + 1
    /\ eventChan' = Append(eventChan, [monitor |-> "test", seq |-> emitted + 1])
    /\ UNCHANGED <<ctrlVars, mainVars, webhookVars, monitorVars, harnessVars, agentCaller, agentPc, agentCtxDone,
                   started, monRunning, stopChClosed, shutdown, deadline,
                   endpoint, collecting, inflight, posts, eventsSent,
                   eventsDropped, processed>>

\* Mutant of ChanRecv: the newest event is received first.
ChanRecv_Newest(ch) ==
    [event |-> ch[Len(ch)], rest |-> SubSeq(ch, 1, Len(ch) - 1)]

\* Receiving from the buffered channel: the oldest event, first in first out.
ChanRecv(ch) ==
    [event |-> Head(ch), rest |-> Tail(ch)]

\* Mutant of Accepted: any response counts as success.
Accepted_AnyResponse(status) == status # 0

\* sendEvent succeeds only on http.StatusAccepted.
Accepted(status) == status = 202

\* sendEvent returns an error before any request is made: no endpoint, or
\* the request cannot be built.
NoRequest(ep) == ep = "" \/ ep = "bad host"

\* EventCollector.Start takes the next event from the channel and calls
\* processEvent, which enriches and logs it.
CollectorTake ==
    /\ AgentAlive
    /\ "collector" \in monRunning
    /\ collecting.pc = "idle"
    /\ eventChan # << >>
    /\ collecting' = [pc |-> "send", event |-> ChanRecv(eventChan).event,
                      posted |-> FALSE, status |-> 0]
    /\ eventChan' = ChanRecv(eventChan).rest
    /\ UNCHANGED <<ctrlVars, mainVars, webhookVars, monitorVars, harnessVars, agentCaller, agentPc, agentCtxDone,
                   started, monRunning, stopChClosed, shutdown, deadline,
                   endpoint, inflight, posts, eventsSent, eventsDropped,
                   processed, emitted>>

\* sendEvent up to httpClient.Do: either it fails before a request is made,
\* and processEvent counts the event as dropped and returns, or the POST is
\* on its way.
CollectorSendEvent ==
    /\ AgentAlive
    /\ collecting.pc = "send"
    /\ IF NoRequest(endpoint)
       THEN /\ eventsDropped' = eventsDropped + 1
            /\ processed' = processed + 1
            /\ collecting' = [collecting EXCEPT !.pc = "idle"]
            /\ UNCHANGED <<inflight, posts>>
       ELSE /\ inflight' = inflight \cup {collecting.event}
            /\ posts' = Append(posts, collecting.event)
            /\ collecting' = [collecting EXCEPT !.pc = "await", !.posted = TRUE]
            /\ UNCHANGED <<eventsDropped, processed>>
    /\ UNCHANGED <<ctrlVars, mainVars, webhookVars, monitorVars, harnessVars, agentCaller, agentPc, agentCtxDone,
                   started, monRunning, stopChClosed, shutdown, deadline,
                   endpoint, eventChan, eventsSent, emitted>>

\* httpClient.Do returns (a status, or 0 for a transport failure, a timeout
\* or a cancelled context) and processEvent counts the event.
CollectorResponse ==
    /\ AgentAlive
    /\ collecting.pc = "await"
    /\ \E st \in Statuses :
          /\ collecting' = [collecting EXCEPT !.pc = "idle", !.status = st]
          /\ IF Accepted(st)
             THEN eventsSent' = eventsSent + 1 /\ UNCHANGED eventsDropped
             ELSE eventsDropped' = eventsDropped + 1 /\ UNCHANGED eventsSent
    /\ inflight' = inflight \ {collecting.event}
    /\ processed' = processed + 1
    /\ UNCHANGED <<ctrlVars, mainVars, webhookVars, monitorVars, harnessVars, agentCaller, agentPc, agentCtxDone,
                   started, monRunning, stopChClosed, shutdown, deadline,
                   endpoint, eventChan, posts, emitted>>

\* The ctx.Done() case of a worker's select: the goroutine returns and
\* wg.Done() runs. The collector is between two events when it selects.
MonWorkerReturn(w) ==
    /\ AgentAlive
    /\ agentCtxDone
    /\ w \in monRunning
    /\ w = "collector" => collecting.pc = "idle"
    /\ monRunning' = monRunning \ {w}
    /\ UNCHANGED <<ctrlVars, mainVars, webhookVars, monitorVars, harnessVars, agentCaller, agentPc, agentCtxDone,
                   started, stopChClosed, shutdown, deadline, endpoint,
                   eventChan, collecting, inflight, posts, eventsSent,
                   eventsDropped, processed, emitted>>

\* Monitor.Shutdown is called (by main after the signal, or by the monitor
\* test): it closes stopCh and starts waiting for wg.
ShutdownBegin ==
    /\ AgentAlive
    /\ agentCaller \in {"main", "monitor_test"}
    /\ shutdown.pc = "none"
    /\ stopChClosed' = TRUE
    /\ shutdown' = [pc |-> "waiting", whileStarted |-> started]
    /\ UNCHANGED <<ctrlVars, mainVars, webhookVars, monitorVars, harnessVars, agentCaller, agentPc, agentCtxDone,
                   started, monRunning, deadline, endpoint, eventChan,
                   collecting, inflight, posts, eventsSent, eventsDropped,
                   processed, emitted>>

\* Shutdown's select, the done case: wg.Wait() has returned.
ShutdownDone ==
    /\ AgentAlive
    /\ shutdown.pc = "waiting"
    /\ monRunning = {}
    /\ shutdown' = [shutdown EXCEPT !.pc = "stopped"]
    /\ UNCHANGED <<ctrlVars, mainVars, webhookVars, monitorVars, harnessVars, agentCaller, agentPc, agentCtxDone,
                   started, monRunning, stopChClosed, deadline, endpoint,
                   eventChan, collecting, inflight, posts, eventsSent,
                   eventsDropped, processed, emitted>>

\* The deadline of the context given to Shutdown passes.
DeadlineExpires ==
    /\ AgentAlive
    /\ shutdown.pc = "waiting"
    /\ ~deadline
    /\ deadline' = TRUE
    /\ UNCHANGED <<ctrlVars, mainVars, webhookVars, monitorVars, harnessVars, agentCaller, agentPc, agentCtxDone,
                   started, monRunning, stopChClosed, shutdown, endpoint,
                   eventChan, collecting, inflight, posts, eventsSent,
                   eventsDropped, processed, emitted>>

\* Shutdown's select, the ctx.Done() case: it gives up waiting.
ShutdownTimeout ==
    /\ AgentAlive
    /\ shutdown.pc = "waiting"
    /\ deadline
    /\ shutdown' = [shutdown EXCEPT !.pc = "timeout"]
    /\ UNCHANGED <<ctrlVars, mainVars, webhookVars, monitorVars, harnessVars, agentCaller, agentPc, agentCtxDone,
                   started, monRunning, stopChClosed, deadline, endpoint,
                   eventChan, collecting, inflight, posts, eventsSent,
                   eventsDropped, processed, emitted>>

\* main returns after Shutdown: its deferred cancel() runs and the process
\* exits.
AgentExit ==
    /\ AgentAlive
    /\ agentCaller = "main"
    /\ shutdown.pc \in {"stopped", "timeout"}
    /\ agentPc' = "exited"
    /\ agentCtxDone' = TRUE
    /\ UNCHANGED <<ctrlVars, mainVars, webhookVars, monitorVars, harnessVars, agentCaller, started, monRunning,
                   stopChClosed, shutdown, deadline, endpoint, eventChan,
                   collecting, inflight, posts, eventsSent, eventsDropped,
                   processed, emitted>>

\* The collector test ends: the deferred cancel() of its context.
AgentCancel ==
    /\ agentCaller = "collector_test"
    /\ ~agentCtxDone
    /\ agentCtxDone' = TRUE
    /\ UNCHANGED <<ctrlVars, mainVars, webhookVars, monitorVars, harnessVars, agentCaller, agentPc, started,
                   monRunning, stopChClosed, shutdown, deadline, endpoint,
                   eventChan, collecting, inflight, posts, eventsSent,
                   eventsDropped, processed, emitted>>

AgentNext ==
    \/ MonitorStart
    \/ \E m \in Emitters : Emit(m)
    \/ TestPut
    \/ CollectorTake
    \/ CollectorSendEvent
    \/ CollectorResponse
    \/ \E w \in MonWorkers : MonWorkerReturn(w)
    \/ ShutdownBegin
    \/ ShutdownDone
    \/ DeadlineExpires
    \/ ShutdownTimeout
    \/ AgentExit
    \/ AgentCancel

AgentSpec == AgentInit /\ [][AgentNext]_vars

-----------------------------------------------------------------------------
(* The mutating admission webhook: internal/webhook                         *)

\* config.WebhookConfig.ExcludeNamespaces, the default
ExcludeNamespaces == <<"kube-system", "kube-public", "apss-system">>

\* Maps (annotations) are sets of <<key, value>> pairs with distinct keys.
HasKey(m, k) == \E kv \in m : kv[1] = k

Lookup(m, k) == (CHOOSE kv \in m : kv[1] = k)[2]

Put(m, k, v) == {kv \in m : kv[1] # k} \cup {<<k, v>>}

\* json.Unmarshal of the document into a corev1.Pod: an absent or null list
\* is a nil slice, an absent map a nil map, an empty object an empty map.
DecodePod(raw) ==
    [Containers |-> IF raw.containers.present THEN raw.containers.value ELSE << >>,
     Volumes |-> IF raw.volumes.present THEN raw.volumes.value ELSE << >>,
     ShareProcessNamespace |->
        [nil |-> ~raw.shareProcessNamespace.present,
         value |-> raw.shareProcessNamespace.value],
     Annotations |->
        [nil |-> ~raw.annotations.present, map |-> raw.annotations.value],
     HostNetwork |-> raw.hostNetwork]

\* A variant of ShouldSkipInjection that does not look for the sidecar
\* among the pod's containers
ShouldSkipInjection_IgnoreSidecar(exclude, pod, namespace) ==
    \/ Contains(exclude, namespace)
    \/ /\ ~pod.Annotations.nil
       /\ HasKey(pod.Annotations.map, "apss.invisible.tech/inject")
       /\ Lookup(pod.Annotations.map, "apss.invisible.tech/inject") = "false"
    \/ pod.HostNetwork

\* Mutant of ShouldSkipInjection: hostNetwork pods are not skipped.
ShouldSkipInjection_HostNetworkInjected(exclude, pod, namespace) ==
    \/ Contains(exclude, namespace)
    \/ Contains(pod.Containers, "apss-agent")
    \/ /\ ~pod.Annotations.nil
       /\ HasKey(pod.Annotations.map, "apss.invisible.tech/inject")
       /\ Lookup(pod.Annotations.map, "apss.invisible.tech/inject") = "false"

ShouldSkipInjection(exclude, pod, namespace) ==
    \/ Contains(exclude, namespace)
    \/ Contains(pod.Containers, "apss-agent")
    \/ /\ ~pod.Annotations.nil
       /\ HasKey(pod.Annotations.map, "apss.invisible.tech/inject")
       /\ Lookup(pod.Annotations.map, "apss.invisible.tech/inject") = "false"
    \/ pod.HostNetwork

\* A PatchOperation; the value is the list of names or strings it carries.
PatchOperation(op, path, value) == [op |-> op, path |-> path, value |-> value]

\* Mutant of CreateSidecarPatches: the volume is always appended.
CreateSidecarPatches_AlwaysAppendVolume(pod) ==
    <<PatchOperation("add", "/spec/containers/-", <<"apss-agent">>)>>
    \o <<PatchOperation("add", "/spec/volumes/-", <<"apss-proc">>)>>
    \o (IF pod.ShareProcessNamespace.nil \/ ~pod.ShareProcessNamespace.value
        THEN <<PatchOperation("add", "/spec/shareProcessNamespace", <<"true">>)>>
        ELSE << >>)
    \o (IF pod.Annotations.nil
        THEN <<PatchOperation("add", "/metadata/annotations",
                              <<"apss.invisible.tech/injected", "true">>)>>
        ELSE <<PatchOperation("add",
                              "/metadata/annotations/apss.invisible.tech~1injected",
                              <<"true">>)>>)

CreateSidecarPatches(pod) ==
    <<PatchOperation("add", "/spec/containers/-", <<"apss-agent">>)>>
    \o (IF Len(pod.Volumes) = 0
        THEN <<PatchOperation("add", "/spec/volumes", <<"apss-proc">>)>>
        ELSE <<PatchOperation("add", "/spec/volumes/-", <<"apss-proc">>)>>)
    \o (IF pod.ShareProcessNamespace.nil \/ ~pod.ShareProcessNamespace.value
        THEN <<PatchOperation("add", "/spec/shareProcessNamespace", <<"true">>)>>
        ELSE << >>)
    \o (IF pod.Annotations.nil
        THEN <<PatchOperation("add", "/metadata/annotations",
                              <<"apss.invisible.tech/injected", "true">>)>>
        ELSE <<PatchOperation("add",
                              "/metadata/annotations/apss.invisible.tech~1injected",
                              <<"true">>)>>)

Response(allowed, patch, patchType, message) ==
    [err |-> FALSE, uid |-> "", allowed |-> allowed, patch |-> patch,
     patchType |-> patchType, message |-> message]

\* Mutant of processRequest: an undecodable pod is allowed through.
ProcessRequest_AllowUndecodable(req, exclude) ==
    IF req.kind # "Pod" THEN Response(TRUE, NoPatch, "", "")
    ELSE IF ~req.raw.decodable
    THEN Response(TRUE, NoPatch, "", "")
    ELSE IF ShouldSkipInjection(exclude, DecodePod(req.raw), req.namespace)
    THEN Response(TRUE, NoPatch, "", "")
    ELSE Response(TRUE,
                  [present |-> TRUE, ops |-> CreateSidecarPatches(DecodePod(req.raw))],
                  "JSONPatch", "")

\* processRequest. json.Marshal of the patches cannot fail for the values
\* CreateSidecarPatches builds, so that error branch yields no response here.
ProcessRequest(req, exclude) ==
    IF req.kind # "Pod" THEN Response(TRUE, NoPatch, "", "")
    ELSE IF ~req.raw.decodable
    THEN Response(FALSE, NoPatch, "", "Failed to unmarshal pod")
    ELSE IF ShouldSkipInjection(exclude, DecodePod(req.raw), req.namespace)
    THEN Response(TRUE, NoPatch, "", "")
    ELSE Response(TRUE,
                  [present |-> TRUE, ops |-> CreateSidecarPatches(DecodePod(req.raw))],
                  "JSONPatch", "")

ProcessAdmissionReview(review, exclude) ==
    IF ~review.hasRequest
    THEN [NoResponse EXCEPT !.err = TRUE]
    ELSE [ProcessRequest(review, exclude) EXCEPT !.uid = review.uid]

\* RFC 6901: the reference tokens of the JSON pointers the mutator uses,
\* with ~1 unescaped to /.
Tokens(path) ==
    CASE path = "/spec/containers/-" -> <<"spec", "containers", "-">>
      [] path = "/spec/volumes" -> <<"spec", "volumes">>
      [] path = "/spec/volumes/-" -> <<"spec", "volumes", "-">>
      [] path = "/spec/shareProcessNamespace" -> <<"spec", "shareProcessNamespace">>
      [] path = "/metadata/annotations" -> <<"metadata", "annotations">>
      [] path = "/metadata/annotations/apss.invisible.tech~1injected" ->
            <<"metadata", "annotations", "apss.invisible.tech/injected">>

Failed(doc) == [doc EXCEPT !.ok = FALSE]

\* RFC 6902 "add" on a pod document: a member of an object is added or
\* replaced; "-" appends to an array, which must exist; the object or
\* array that is to hold the new value must exist.
ApplyAdd(doc, op) ==
    LET t == Tokens(op.path) IN
    IF ~doc.ok THEN doc
    ELSE IF t = <<"spec", "containers", "-">>
    THEN IF doc.containers.present
         THEN [doc EXCEPT !.containers.value = Append(@, op.value[1])]
         ELSE Failed(doc)
    ELSE IF t = <<"spec", "volumes">>
    THEN [doc EXCEPT !.volumes = Opt(op.value)]
    ELSE IF t = <<"spec", "volumes", "-">>
    THEN IF doc.volumes.present
         THEN [doc EXCEPT !.volumes.value = Append(@, op.value[1])]
         ELSE Failed(doc)
    ELSE IF t = <<"spec", "shareProcessNamespace">>
    THEN [doc EXCEPT !.shareProcessNamespace = Opt(op.value = <<"true">>)]
    ELSE IF t = <<"metadata", "annotations">>
    THEN [doc EXCEPT !.annotations = Opt({<<op.value[1], op.value[2]>>})]
    ELSE IF doc.annotations.present
         THEN [doc EXCEPT !.annotations.value = Put(@, t[3], op.value[1])]
         ELSE Failed(doc)

RECURSIVE ApplyPatch(_, _)
ApplyPatch(doc, ops) ==
    IF ops = << >> THEN doc
    ELSE ApplyPatch(ApplyAdd(doc, Head(ops)), Tail(ops))

\* Webhook harness: ProcessAdmissionReview applied to one review, and to the
\* same pod again once the API server has applied the patch it returned

ContainerLists ==
    {NoList, Opt(<< >>), Opt(<<"app">>), Opt(<<"app", "apss-agent">>)}

VolumeLists == {NoList, Opt(<< >>), Opt(<<"data">>)}

ShareFlags == {NoBool, Opt(TRUE), Opt(FALSE)}

AnnotationMaps ==
    {NoMap, Opt({}),
     Opt({<<"apss.invisible.tech/inject", "false">>}),
     Opt({<<"apss.invisible.tech/inject", "true">>}),
     Opt({<<"team", "a">>}),
     Opt({<<"apss.invisible.tech/injected", "false">>, <<"team", "a">>})}

RawObjects ==
    {NotAPod} \cup
    {PodDoc(c, v, f, a, h) :
        c \in ContainerLists, v \in VolumeLists, f \in ShareFlags,
        a \in AnnotationMaps, h \in BOOLEAN}

Reviews ==
    {NoReview} \cup
    {Review(uid, kind, ns, raw) :
        uid \in {"req-1", "req-2"}, kind \in {"Pod", "Deployment"},
        ns \in {"app", "kube-system"}, raw \in RawObjects}

WebhookInit ==
    /\ MainIdle
    /\ AgentIdle
    /\ MonitorIdle
    /\ HarnessIdle
    /\ cfg = TestConfig
    /\ now = 0
    /\ agents = << >>
    /\ handlers = [h \in Handlers |-> Idle]
    /\ eventBuffer = << >>
    /\ evalPending = << >>
    /\ alertChan = << >>
    /\ alerts = << >>
    /\ relays = {}
    /\ sinkCalls = {}
    /\ HistIdle
    /\ requests = 0
    /\ response = [method |-> "", json |-> FALSE, status |-> 0]
    /\ evalIn = NoEvent
    /\ evalOut = [done |-> FALSE, alerts |-> << >>]
    /\ whIn \in Reviews
    /\ whOut = [done |-> FALSE, response |-> NoResponse, submission |-> 1]

WebhookStep ==
    /\ ~whOut.done
    /\ whOut' = [done |-> TRUE,
                 response |-> ProcessAdmissionReview(whIn, ExcludeNamespaces),
                 submission |-> whOut.submission]
    /\ UNCHANGED <<ctrlVars, mainVars, agentVars, monitorVars, harnessVars, whIn>>

\* The API server applies the returned patch to the pod; the patched pod is
\* submitted to the webhook again (a reinvocation, or the same object sent
\* through admission once more).
WebhookResubmit ==
    /\ whOut.done
    /\ whOut.submission = 1
    /\ whOut.response.patch.present
    /\ ApplyPatch(whIn.raw, whOut.response.patch.ops).ok
    /\ whIn' = [whIn EXCEPT
                  !.raw = ApplyPatch(whIn.raw, whOut.response.patch.ops)]
    /\ whOut' = [done |-> FALSE, response |-> NoResponse, submission |-> 2]
    /\ UNCHANGED <<ctrlVars, mainVars, agentVars, monitorVars, harnessVars>>

WebhookNext ==
    \/ WebhookStep
    \/ WebhookResubmit

WebhookSpec == WebhookInit /\ [][WebhookNext]_vars

-----------------------------------------------------------------------------
(* Detection engine harness: Evaluate applied to one event of EvalEvents *)

Indicators == {"possible_cryptominer", "shell_spawn", "matches_pattern:nc"}

IndicatorLists == UNION {[1..n -> Indicators] : n \in 0..MaxIndicators}

Ports == suspiciousPorts \cup dbPorts \cup {0, 80, 3389}

Paths == {"/etc/passwd", "/etc/shadow", "/etc/sudoers", "/etc/crontab", "/tmp/foo"}

Operations == {"create", "modify", "delete"}

EvalEvents ==
    { SecurityEvent(1, "a1", "INFO", p, n, f) :
        p \in {NoProcess} \cup {Process(l) : l \in IndicatorLists},
        n \in {NoNetwork} \cup {Network(x, q) : x \in BOOLEAN, q \in Ports},
        f \in {NoFile} \cup {File(path, op) : path \in Paths, op \in Operations} }

EvalInit ==
    /\ WebhookIdle
    /\ MonitorIdle
    /\ HarnessIdle
    /\ MainIdle
    /\ AgentIdle
    /\ cfg = TestConfig
    /\ now = 0
    /\ agents = << >>
    /\ handlers = [h \in Handlers |-> Idle]
    /\ eventBuffer = << >>
    /\ evalPending = << >>
    /\ alertChan = << >>
    /\ alerts = << >>
    /\ relays = {}
    /\ sinkCalls = {}
    /\ HistIdle
    /\ requests = 0
    /\ response = [method |-> "", json |-> FALSE, status |-> 0]
    /\ evalIn \in EvalEvents
    /\ evalOut = [done |-> FALSE, alerts |-> << >>]

EvalStep ==
    /\ ~evalOut.done
    /\ evalOut' = [done |-> TRUE, alerts |-> Evaluate(evalIn)]
    /\ UNCHANGED <<extVars, cfg, now, agents, handlers, eventBuffer, evalPending,
                   alertChan, alerts, relays, sinkCalls, histVars, requests, response,
                   evalIn>>

EvalNext == EvalStep

EvalSpec == EvalInit /\ [][EvalNext]_vars

-----------------------------------------------------------------------------
(* The process monitor (pkg/procmon): analyzeNewProcess on one new process *)

\* Config.SuspiciousProcesses as compiled by New, in order
suspiciousPatterns == <<"nc", "ncat">>

reverseShellPatterns ==
    <<"bash\\s+-i.*>&\\s*/dev/tcp", "nc\\s+.*-e\\s+/bin/(ba)?sh",
      "python.*socket.*connect", "perl.*socket.*connect", "ruby.*TCPSocket",
      "php.*fsockopen", "socat.*exec", "/dev/tcp/", "mkfifo.*nc">>

miners ==
    <<"xmrig", "minerd", "cpuminer", "cgminer", "bfgminer", "ethminer",
      "stratum", "cryptonight", "randomx">>

poolPatterns ==
    <<"stratum\\+tcp://", "pool\\..*:\\d+", "-o\\s+.*pool", "--url.*mining">>

shells == <<"sh", "bash", "zsh", "fish", "csh", "tcsh", "dash", "ash">>

\* fmt.Sprintf("matches_pattern:%s", pattern.String())
MatchesPattern(pattern) == "matches_pattern:" \o pattern

isReverseShell(proc) ==
    \E i \in 1..Len(reverseShellPatterns) :
        reverseShellPatterns[i] \in proc.rsMatched

isCryptoMiner(proc) ==
    \/ \E i \in 1..Len(miners) : miners[i] \in proc.minersFound
    \/ \E i \in 1..Len(poolPatterns) : poolPatterns[i] \in proc.poolMatched

isShellSpawn(proc) ==
    \E i \in 1..Len(shells) :
        /\ proc.name = shells[i]
        /\ \E k \in 1..Len(proc.cmdline) :
              proc.cmdline[k] \in {"-i", "-il", "-li"}

\* The loop of analyzeNewProcess over the first n configured patterns: the
\* indicators appended and the severity so far
RECURSIVE CheckPatterns(_, _)
CheckPatterns(proc, n) ==
    IF n = 0
    THEN [indicators |-> << >>, severity |-> SeverityInfo]
    ELSE LET before == CheckPatterns(proc, n - 1)
         IN  IF suspiciousPatterns[n] \in proc.cfgMatched
             THEN [indicators |->
                       Append(before.indicators,
                              MatchesPattern(suspiciousPatterns[n])),
                   severity |-> SeverityHigh]
             ELSE before

\* The shell_spawn branch of a variant that sets MEDIUM unconditionally
ShellSpawnStep_AlwaysMedium(proc, e) ==
    IF isShellSpawn(proc)
    THEN [indicators |-> Append(e.indicators, "shell_spawn"),
          severity |-> SeverityMedium]
    ELSE e

\* The shell_spawn branch of analyzeNewProcess
ShellSpawnStep(proc, e) ==
    IF isShellSpawn(proc)
    THEN [indicators |-> Append(e.indicators, "shell_spawn"),
          severity |-> IF e.severity < SeverityMedium
                       THEN SeverityMedium ELSE e.severity]
    ELSE e

\* The event analyzeNewProcess builds for a new process
analyzeNewProcess(proc) ==
    LET e1 == CheckPatterns(proc, Len(suspiciousPatterns))
        e2 == IF isReverseShell(proc)
              THEN [indicators |-> Append(e1.indicators, "possible_reverse_shell"),
                    severity |-> SeverityCritical]
              ELSE e1
        e3 == IF isCryptoMiner(proc)
              THEN [indicators |-> Append(e2.indicators, "possible_cryptominer"),
                    severity |-> SeverityCritical]
              ELSE e2
    IN  ShellSpawnStep(proc, e3)

ProcNames == {"bash", "sh", "sleep", "xmrig"}

ProcArgs == {"-i", "-il", "script.sh"}

CfgMatches == {{}, {"nc"}, {"nc", "ncat"}}

ReverseShellMatches ==
    {{}, {reverseShellPatterns[1]}, {reverseShellPatterns[8]},
     {reverseShellPatterns[1], reverseShellPatterns[8]},
     {reverseShellPatterns[2]}}

MinersFound == {{}, {"xmrig"}, {"stratum"}}

PoolMatches == {{}, {poolPatterns[1]}}

\* The processes analysed: what the matchers report is consistent with the
\* name (a miner's name contains the miner's name) and with itself (a
\* command line matching the nc reverse shell matches the pattern nc, one
\* matching a stratum+tcp URL contains the word stratum).
Processes ==
    {p \in {ProcessInfo(n, <<n, a>>, c, r, m, q) :
                n \in ProcNames, a \in ProcArgs, c \in CfgMatches,
                r \in ReverseShellMatches, m \in MinersFound,
                q \in PoolMatches} :
        /\ p.name = "xmrig" => "xmrig" \in p.minersFound
        /\ reverseShellPatterns[2] \in p.rsMatched => "nc" \in p.cfgMatched
        /\ poolPatterns[1] \in p.poolMatched => "stratum" \in p.minersFound}

ProcInit ==
    /\ WebhookIdle
    /\ MainIdle
    /\ AgentIdle
    /\ HarnessIdle
    /\ cfg = TestConfig
    /\ now = 0
    /\ agents = << >>
    /\ handlers = [h \in Handlers |-> Idle]
    /\ eventBuffer = << >>
    /\ evalPending = << >>
    /\ alertChan = << >>
    /\ alerts = << >>
    /\ relays = {}
    /\ sinkCalls = {}
    /\ HistIdle
    /\ requests = 0
    /\ response = [method |-> "", json |-> FALSE, status |-> 0]
    /\ evalIn = NoEvent
    /\ evalOut = [done |-> FALSE, alerts |-> << >>]
    /\ netIn = NoRow
    /\ netOut = [done |-> FALSE, event |-> NoNetworkEvent]
    /\ procIn \in Processes
    /\ procOut = [done |-> FALSE, event |-> NoProcessEvent]

ProcStep ==
    /\ ~procOut.done
    /\ procOut' = [done |-> TRUE, event |-> analyzeNewProcess(procIn)]
    /\ UNCHANGED <<ctrlVars, mainVars, agentVars, webhookVars, harnessVars, procIn, netIn, netOut>>

ProcNext == ProcStep

ProcSpec == ProcInit /\ [][ProcNext]_vars

-----------------------------------------------------------------------------
(* The network monitor (pkg/netpolicy): one new row of /proc/net/{tcp,tcp6,udp} *)

\* Config.SuspiciousPorts as the agent sets it (defaultSuspiciousPorts)
SuspiciousPorts == {4444, 5555, 6666, 1337, 3389, 5900, 5901, 6379, 27017}

rsShellPorts == {4444, 5555, 6666, 1337, 1234, 31337, 9001, 9999}

\* privateRangeStrs as net.ParseCIDR returns them: the 4-byte network and
\* the number of leading mask bits
privateRanges ==
    <<[ip |-> <<10, 0, 0, 0>>, bits |-> 8],
      [ip |-> <<172, 16, 0, 0>>, bits |-> 12],
      [ip |-> <<192, 168, 0, 0>>, bits |-> 16],
      [ip |-> <<127, 0, 0, 0>>, bits |-> 8],
      [ip |-> <<169, 254, 0, 0>>, bits |-> 16]>>

\* A nil net.IP
NilIP == << >>

\* net.IPv4(a, b, c, d): the 16-byte IPv4-mapped form
IPv4(a, b, c, d) == <<0, 0, 0, 0, 0, 0, 0, 0, 0, 0, 255, 255, a, b, c, d>>

IPv4zero == IPv4(0, 0, 0, 0)

IPv6unspecified == [i \in 1..16 |-> 0]

IPv6loopback == [i \in 1..16 |-> IF i = 16 THEN 1 ELSE 0]

\* net.IP.To4: the 4-byte form of an IPv4 address, nil for anything else
To4(ip) ==
    IF Len(ip) = 4
    THEN ip
    ELSE IF /\ Len(ip) = 16
            /\ \A i \in 1..10 : ip[i] = 0
            /\ ip[11] = 255
            /\ ip[12] = 255
         THEN SubSeq(ip, 13, 16)
         ELSE NilIP

\* net.IP.Equal
Equal(ip, x) ==
    IF Len(ip) = Len(x)
    THEN ip = x
    ELSE IF Len(ip) = 4 /\ Len(x) = 16
         THEN SubSeq(x, 1, 12) = SubSeq(IPv4zero, 1, 12) /\ ip = SubSeq(x, 13, 16)
         ELSE IF Len(ip) = 16 /\ Len(x) = 4
              THEN SubSeq(ip, 1, 12) = SubSeq(IPv4zero, 1, 12) /\ SubSeq(ip, 13, 16) = x
              ELSE FALSE

\* net.IP.IsUnspecified
IsUnspecified(ip) == Equal(ip, IPv4zero) \/ Equal(ip, IPv6unspecified)

\* net.IP.IsLoopback
IsLoopback(ip) ==
    IF To4(ip) # NilIP THEN To4(ip)[1] = 127 ELSE Equal(ip, IPv6loopback)

\* The number of mask bits that fall into byte i of a mask of that many
\* leading bits
MaskBits(bits, i) ==
    IF bits >= 8 * i THEN 8
    ELSE IF bits <= 8 * (i - 1) THEN 0 ELSE bits - 8 * (i - 1)

\* net.IPNet.Contains for a 4-byte network: byte by byte under the mask
IPNetContains(ipnet, ip) ==
    LET x == IF To4(ip) # NilIP THEN To4(ip) ELSE ip
    IN  /\ Len(x) = Len(ipnet.ip)
        /\ \A i \in 1..Len(x) :
              LET drop == 2 ^ (8 - MaskBits(ipnet.bits, i))
              IN  x[i] \div drop = ipnet.ip[i] \div drop

isPrivateIP(ip) ==
    \/ ip = NilIP
    \/ IsUnspecified(ip)
    \/ IsLoopback(ip)
    \/ \E i \in 1..Len(privateRanges) : IPNetContains(privateRanges[i], ip)

\* parseAddress on the bytes of the hex address: 8 hex digits are an IPv4
\* address with its bytes reversed, 32 hex digits an IPv6 address with the
\* bytes of each 4-byte group reversed, anything else leaves ip nil.
parseAddress(b) ==
    IF Len(b) = 4
    THEN IPv4(b[4], b[3], b[2], b[1])
    ELSE IF Len(b) = 16
         THEN [i \in 1..16 |-> b[4 * ((i - 1) \div 4) + 4 - ((i - 1) % 4)]]
         ELSE NilIP

\* The Connection parseLine builds from a row
parseLine(row) ==
    [Protocol |-> row.table, LocalIP |-> parseAddress(row.local),
     RemoteIP |-> parseAddress(row.remote),
     RemotePort |-> row.remotePort, LocalPort |-> row.localPort,
     State |-> row.state]

isPotentialReverseShell(conn) ==
    conn.RemotePort \in rsShellPorts \/ conn.LocalPort \in rsShellPorts

\* A variant of analyzeConnection that looks at the suspicious ports last
analyzeConnection_PortsLast(conn) ==
    LET eventType == IF conn.State = "LISTEN"
                     THEN "network_listen" ELSE "network_connect"
        isExternal == ~isPrivateIP(conn.RemoteIP)
        isSuspiciousPort == \/ conn.RemotePort \in SuspiciousPorts
                            \/ conn.LocalPort \in SuspiciousPorts
        s1 == IF conn.State = "ESTABLISHED" /\ isExternal
              THEN SeverityLow ELSE SeverityInfo
        s2 == IF /\ conn.State = "ESTABLISHED"
                 /\ isExternal
                 /\ isPotentialReverseShell(conn)
              THEN SeverityCritical ELSE s1
        s3 == IF isSuspiciousPort THEN SeverityHigh ELSE s2
    IN  IF conn.RemotePort = 0 /\ Equal(conn.RemoteIP, IPv4zero)
        THEN NoNetworkEvent
        ELSE [emitted |-> TRUE, type |-> eventType, severity |-> s3,
              is_external |-> isExternal,
              is_suspicious_port |-> isSuspiciousPort]

\* analyzeConnection: the event it sends, or none when it returns early
analyzeConnection(conn) ==
    LET eventType == IF conn.State = "LISTEN"
                     THEN "network_listen" ELSE "network_connect"
        isExternal == ~isPrivateIP(conn.RemoteIP)
        isSuspiciousPort == \/ conn.RemotePort \in SuspiciousPorts
                            \/ conn.LocalPort \in SuspiciousPorts
        s1 == IF conn.State = "ESTABLISHED" /\ isExternal
              THEN SeverityLow ELSE SeverityInfo
        s2 == IF isSuspiciousPort THEN SeverityHigh ELSE s1
        s3 == IF /\ conn.State = "ESTABLISHED"
                 /\ isExternal
                 /\ isPotentialReverseShell(conn)
              THEN SeverityCritical ELSE s2
    IN  IF conn.RemotePort = 0 /\ Equal(conn.RemoteIP, IPv4zero)
        THEN NoNetworkEvent
        ELSE [emitted |-> TRUE, type |-> eventType, severity |-> s3,
              is_external |-> isExternal,
              is_suspicious_port |-> isSuspiciousPort]

\* Remote addresses as /proc/net/tcp and /proc/net/udp print them:
\* 0.0.0.0, 127.0.0.1, 10.0.0.5, 192.168.1.1, 8.8.8.8, 169.254.1.1,
\* 172.15.0.1, 172.16.0.1, 172.31.0.1, 172.32.0.1
HexIPv4 ==
    {<<0, 0, 0, 0>>, <<1, 0, 0, 127>>, <<5, 0, 0, 10>>, <<1, 1, 168, 192>>,
     <<8, 8, 8, 8>>, <<1, 1, 254, 169>>, <<1, 0, 15, 172>>, <<1, 0, 16, 172>>,
     <<1, 0, 31, 172>>, <<1, 0, 32, 172>>}

\* Remote addresses as /proc/net/tcp6 prints them: ::, ::1,
\* ::ffff:0.0.0.0, ::ffff:8.8.8.8, ::ffff:10.0.0.5, 2001:db8::1
HexIPv6 ==
    {[i \in 1..16 |-> 0],
     [i \in 1..16 |-> IF i = 13 THEN 1 ELSE 0],
     <<0, 0, 0, 0, 0, 0, 0, 0, 0, 0, 255, 255, 0, 0, 0, 0>>,
     <<0, 0, 0, 0, 0, 0, 0, 0, 0, 0, 255, 255, 8, 8, 8, 8>>,
     <<0, 0, 0, 0, 0, 0, 0, 0, 0, 0, 255, 255, 5, 0, 0, 10>>,
     <<184, 13, 1, 32, 0, 0, 0, 0, 0, 0, 0, 0, 1, 0, 0, 0>>}

RemotePorts == {0, 443, 4444, 9001}

LocalPorts == {8080, 6379}

States == {"ESTABLISHED", "LISTEN", "CLOSE"}

Rows ==
    {NetRow(t, <<0, 0, 0, 0>>, lp, a, rp, st) :
        t \in {"tcp", "udp"}, a \in HexIPv4, rp \in RemotePorts,
        lp \in LocalPorts, st \in States}
    \cup
    {NetRow("tcp6", [i \in 1..16 |-> 0], lp, a, rp, st) :
        a \in HexIPv6, rp \in RemotePorts, lp \in LocalPorts, st \in States}

NetInit ==
    /\ WebhookIdle
    /\ MainIdle
    /\ AgentIdle
    /\ HarnessIdle
    /\ cfg = TestConfig
    /\ now = 0
    /\ agents = << >>
    /\ handlers = [h \in Handlers |-> Idle]
    /\ eventBuffer = << >>
    /\ evalPending = << >>
    /\ alertChan = << >>
    /\ alerts = << >>
    /\ relays = {}
    /\ sinkCalls = {}
    /\ HistIdle
    /\ requests = 0
    /\ response = [method |-> "", json |-> FALSE, status |-> 0]
    /\ evalIn = NoEvent
    /\ evalOut = [done |-> FALSE, alerts |-> << >>]
    /\ procIn = NoProcessInfo
    /\ procOut = [done |-> FALSE, event |-> NoProcessEvent]
    /\ netIn \in Rows
    /\ netOut = [done |-> FALSE, event |-> NoNetworkEvent]

\* scanConnections meets a row it has not seen: parseLine, then
\* analyzeConnection
NetStep ==
    /\ ~netOut.done
    /\ netOut' = [done |-> TRUE, event |-> analyzeConnection(parseLine(netIn))]
    /\ UNCHANGED <<ctrlVars, mainVars, agentVars, webhookVars, harnessVars, procIn, procOut, netIn>>

NetNext == NetStep

NetSpec == NetInit /\ [][NetNext]_vars

-----------------------------------------------------------------------------
(* GetAlerts and GET /api/v1/alerts on stores of every size *)

\* The Controller's variables as NewController leaves them, for the
\* specifications in which the Controller does not run
ControllerIdle ==
    /\ cfg = TestConfig
    /\ now = 0
    /\ agents = << >>
    /\ handlers = [h \in Handlers |-> Idle]
    /\ eventBuffer = << >>
    /\ evalPending = << >>
    /\ alertChan = << >>
    /\ alerts = << >>
    /\ relays = {}
    /\ sinkCalls = {}
    /\ HistIdle
    /\ requests = 0
    /\ response = [method |-> "", json |-> FALSE, status |-> 0]
    /\ evalIn = NoEvent
    /\ evalOut = [done |-> FALSE, alerts |-> << >>]

\* The largest alert store examined
MaxStore == 102

\* The limit handleAlerts passes to GetAlerts
AlertsLimit == 100

\* A store of n alerts in arrival order, each alert standing for itself by
\* its arrival number
StoreOf(n) == [i \in 1..n |-> i]

Limits == {-1, 0, 1, 2, 50, 100, 101, 150}

GetInit ==
    /\ WebhookIdle
    /\ MainIdle
    /\ AgentIdle
    /\ MonitorIdle
    /\ ControllerIdle
    /\ LateIdle
    /\ SinkIdle
    /\ FileIdle
    /\ ScanIdle
    /\ \E n \in 0..MaxStore :
          \/ \E l \in Limits :
                getIn = [store |-> StoreOf(n), limit |-> l, via |-> "GetAlerts"]
          \/ getIn = [store |-> StoreOf(n), limit |-> AlertsLimit,
                      via |-> "handleAlerts"]
    /\ getOut = [done |-> FALSE, alerts |-> << >>]

\* A direct call of GetAlerts(limit)
GetAlertsCall ==
    /\ ~getOut.done
    /\ getIn.via = "GetAlerts"
    /\ getOut' = [done |-> TRUE, alerts |-> GetAlerts(getIn.store, getIn.limit)]
    /\ UNCHANGED <<ctrlVars, mainVars, agentVars, webhookVars, monitorVars,
                   lateVars, scanVars, getIn, sinkIn, sinkOut, fileIn, fileOut>>

\* GET /api/v1/alerts: the handler encodes GetAlerts(100)
HandleAlerts ==
    /\ ~getOut.done
    /\ getIn.via = "handleAlerts"
    /\ getOut' = [done |-> TRUE, alerts |-> GetAlerts(getIn.store, AlertsLimit)]
    /\ UNCHANGED <<ctrlVars, mainVars, agentVars, webhookVars, monitorVars,
                   lateVars, scanVars, getIn, sinkIn, sinkOut, fileIn, fileOut>>

GetNext == GetAlertsCall \/ HandleAlerts

GetSpec == GetInit /\ [][GetNext]_vars

-----------------------------------------------------------------------------
(* The sink client (pkg/sweetsecurity): one call of one operation *)

SinkOps == {"SendAlert", "SendEvent", "SendBatchEvents", "HealthCheck"}

\* Config.APIEndpoint: unset, a URL, a string http.NewRequest cannot parse
SinkEndpoints == {"", "https://sweet.example", "bad host"}

SinkKeys == {"", "key"}

\* What the server answers: a status code, or 0 when httpClient.Do fails
SinkStatuses == {0, 199, 200, 201, 204, 299, 300, 404, 500}

\* "%s/api/v1/alerts" and the like
SinkURL(base, op) ==
    base \o (CASE op = "SendAlert" -> "/api/v1/alerts"
               [] op = "SendEvent" -> "/api/v1/events"
               [] op = "SendBatchEvents" -> "/api/v1/events/batch"
               [] OTHER -> "/health")

\* A variant of the configuration test that looks at the endpoint only
Configured_EndpointOnly(c) == c.base # ""

\* The negation of: c.apiEndpoint == "" || c.apiKey == ""
Configured(c) == c.base # "" /\ c.api_key # ""

\* http.NewRequestWithContext fails on a URL it cannot parse
RequestBuilds(url) == url \notin {SinkURL("bad host", op) : op \in SinkOps}

\* sendJSON: POST the payload, nil on 200..299
sendJSON(url, status) ==
    IF ~RequestBuilds(url)
    THEN [requests |-> << >>, err |-> "failed to create request"]
    ELSE [requests |-> <<[method |-> "POST", url |-> url]>>,
          err |-> IF status = 0 THEN "failed to send request"
                  ELSE IF status < 200 \/ status >= 300
                       THEN "unexpected status code"
                       ELSE ""]

\* SendAlert, SendEvent and SendBatchEvents
Send(c, op, status) ==
    IF ~Configured(c)
    THEN [requests |-> << >>, err |-> "sweet security client not configured"]
    ELSE sendJSON(SinkURL(c.base, op), status)

\* HealthCheck: GET /health, nil on 200 only
HealthCheck(c, status) ==
    IF ~Configured(c)
    THEN [requests |-> << >>, err |-> "sweet security client not configured"]
    ELSE IF ~RequestBuilds(SinkURL(c.base, "HealthCheck"))
         THEN [requests |-> << >>, err |-> "failed to create request"]
         ELSE [requests |-> <<[method |-> "GET",
                               url |-> SinkURL(c.base, "HealthCheck")]>>,
               err |-> IF status = 0 THEN "failed to check health"
                       ELSE IF status # 200
                            THEN "health check failed with status"
                            ELSE ""]

SinkInit ==
    /\ WebhookIdle
    /\ MainIdle
    /\ AgentIdle
    /\ MonitorIdle
    /\ ControllerIdle
    /\ LateIdle
    /\ GetIdle
    /\ FileIdle
    /\ ScanIdle
    /\ sinkIn \in [base : SinkEndpoints, api_key : SinkKeys, op : SinkOps,
                   status : SinkStatuses]
    /\ sinkOut = [done |-> FALSE, requests |-> << >>, err |-> ""]

SinkSend ==
    /\ ~sinkOut.done
    /\ sinkIn.op # "HealthCheck"
    /\ LET r == Send(sinkIn, sinkIn.op, sinkIn.status)
       IN  sinkOut' = [done |-> TRUE, requests |-> r.requests, err |-> r.err]
    /\ UNCHANGED <<ctrlVars, mainVars, agentVars, webhookVars, monitorVars,
                   lateVars, scanVars, getIn, getOut, sinkIn, fileIn, fileOut>>

SinkHealthCheck ==
    /\ ~sinkOut.done
    /\ sinkIn.op = "HealthCheck"
    /\ LET r == HealthCheck(sinkIn, sinkIn.status)
       IN  sinkOut' = [done |-> TRUE, requests |-> r.requests, err |-> r.err]
    /\ UNCHANGED <<ctrlVars, mainVars, agentVars, webhookVars, monitorVars,
                   lateVars, scanVars, getIn, getOut, sinkIn, fileIn, fileOut>>

SinkNext == SinkSend \/ SinkHealthCheck

SinkSpec == SinkInit /\ [][SinkNext]_vars

-----------------------------------------------------------------------------
(* The scan loop of the process monitor (pkg/procmon): scanProcesses *)

\* The number of scans followed
MaxScans == 4

\* The capacity of the event channel the monitors send on
ScanChanCap == 1

\* The numeric entries /proc can have
Pids == {1, 2}

\* What getProcessInfo reads for each pid: an interactive shell, a sleep
ProcTable(pid) ==
    IF pid = 1
    THEN ProcessInfo("bash", <<"bash", "-i">>, {}, {}, {}, {})
    ELSE ProcessInfo("sleep", <<"sleep", "-i">>, {}, {}, {}, {})

\* The orders in which a range over a map can visit the members of S
Orders(S) ==
    {f \in [1..Cardinality(S) -> S] :
        \A i, j \in 1..Cardinality(S) : i # j => f[i] # f[j]}

\* The members of a set of numbers in increasing order (os.ReadDir returns
\* the entries sorted by name)
RECURSIVE Sorted(_)
Sorted(S) ==
    IF S = {} THEN << >>
    ELSE LET m == CHOOSE x \in S : \A y \in S : x <= y
         IN  <<m>> \o Sorted(S \ {m})

\* The event analyzeNewProcess builds for a pid
StartEvent(pid) ==
    [type |-> "process_start", pid |-> pid,
     severity |-> analyzeNewProcess(ProcTable(pid)).severity]

\* The event emitProcessExit builds for a pid
ExitEvent(pid) ==
    [type |-> "process_exit", pid |-> pid, severity |-> SeverityInfo]

\* The non-blocking sends of a list of events, in order, on a channel of
\* the given capacity: the channel afterwards, and for each event whether
\* it was sent or dropped
RECURSIVE OfferAll(_, _, _)
OfferAll(ch, capacity, events) ==
    IF events = << >>
    THEN [ch |-> ch, offers |-> << >>]
    ELSE LET sent == CanSend(ch, capacity)
             rest == OfferAll(IF sent THEN Append(ch, Head(events)) ELSE ch,
                              capacity, Tail(events))
         IN  [ch |-> rest.ch,
              offers |-> <<[event |-> Head(events), sent |-> sent]>> \o rest.offers]

\* A variant in which every listed pid is treated as new
NewPids_IgnoreKnown(known, listing, unreadable) == listing \ unreadable

\* The pids scanProcesses treats as new: listed, not in knownProcs, and
\* readable by getProcessInfo
NewPids(known, listing, unreadable) == (listing \ known) \ unreadable

\* A variant that records a new pid only when its event was sent
RecordedPids_OnlyIfSent(new, offers) ==
    {p \in new : \E i \in 1..Len(offers) :
        /\ offers[i].event = StartEvent(p)
        /\ offers[i].sent}

\* The pids scanProcesses adds to knownProcs: every new pid, before its
\* event is offered
RecordedPids(new, offers) == new

\* One scanProcesses over a listing of /proc: the new pids are recorded and
\* offered in listing order, then the known pids that are not listed are
\* deleted and their exit offered, in the order the map is ranged over.
ScanResult(known, ch, listing, unreadable, exitOrder) ==
    LET new == NewPids(known, listing, unreadable)
        starts == OfferAll(ch, ScanChanCap,
                           [i \in 1..Cardinality(new) |-> StartEvent(Sorted(new)[i])])
        known1 == known \cup RecordedPids(new, starts.offers)
        exits == OfferAll(starts.ch, ScanChanCap,
                          [i \in 1..Len(exitOrder) |-> ExitEvent(exitOrder[i])])
    IN  [known |-> known1 \cap listing,
         ch |-> exits.ch,
         offers |-> starts.offers \o exits.offers]

ScanInit ==
    /\ WebhookIdle
    /\ MainIdle
    /\ AgentIdle
    /\ MonitorIdle
    /\ ControllerIdle
    /\ LateIdle
    /\ GetIdle
    /\ SinkIdle
    /\ FileIdle
    /\ knownProcs = {}
    /\ procScans = << >>
    /\ knownConns = {}
    /\ netScans = << >>
    /\ scanChan = << >>

\* scanProcesses: os.ReadDir succeeds
ScanProcesses ==
    /\ Len(procScans) + Len(netScans) < MaxScans
    /\ \E listing \in SUBSET Pids :
       \E unreadable \in SUBSET (listing \ knownProcs) :
       \E exitOrder \in Orders(knownProcs \ listing) :
          LET r == ScanResult(knownProcs, scanChan, listing, unreadable, exitOrder)
          IN  /\ knownProcs' = r.known
              /\ scanChan' = r.ch
              /\ procScans' = Append(procScans,
                                     [ok |-> TRUE, prior |-> knownProcs,
                                      listing |-> listing,
                                      unreadable |-> unreadable,
                                      offers |-> r.offers])
    /\ UNCHANGED <<ctrlVars, mainVars, agentVars, webhookVars, monitorVars,
                   lateVars, pureVars, knownConns, netScans>>

\* scanProcesses: os.ReadDir fails and the scan returns at once
ScanReadDirFails ==
    /\ Len(procScans) + Len(netScans) < MaxScans
    /\ procScans' = Append(procScans,
                           [ok |-> FALSE, prior |-> knownProcs, listing |-> {},
                            unreadable |-> {}, offers |-> << >>])
    /\ UNCHANGED <<ctrlVars, mainVars, agentVars, webhookVars, monitorVars,
                   lateVars, pureVars, knownProcs, knownConns, netScans, scanChan>>

\* The collector receives an event from the channel
ScanChanRecv ==
    /\ scanChan # << >>
    /\ scanChan' = ChanRecv(scanChan).rest
    /\ UNCHANGED <<ctrlVars, mainVars, agentVars, webhookVars, monitorVars,
                   lateVars, pureVars, knownProcs, procScans, knownConns, netScans>>

(* The scan loop of the network monitor (pkg/netpolicy): scanConnections *)

\* net.IP.String: dotted decimal for an IPv4 address in either form, the
\* IPv6 text otherwise, "<nil>" for a nil address
IPString(ip) ==
    IF ip = NilIP
    THEN <<"<nil>">>
    ELSE IF To4(ip) # NilIP THEN <<"v4", To4(ip)>> ELSE <<"v6", ip>>

\* connectionKey: "%s:%s:%d->%s:%d:%s"
connectionKey(conn) ==
    <<conn.Protocol, IPString(conn.LocalIP), conn.LocalPort,
      IPString(conn.RemoteIP), conn.RemotePort, conn.State>>

\* The rows the tables can hold: a connection to 8.8.8.8:4444 in state
\* ESTABLISHED, the same connection in state CLOSE, a UDP socket with no
\* remote end
ScanRows ==
    {NetRow("tcp", <<5, 0, 0, 10>>, 8080, <<8, 8, 8, 8>>, 4444, "ESTABLISHED"),
     NetRow("tcp", <<5, 0, 0, 10>>, 8080, <<8, 8, 8, 8>>, 4444, "CLOSE"),
     NetRow("udp", <<0, 0, 0, 0>>, 6379, <<0, 0, 0, 0>>, 0, "CLOSE")}

\* The position of a table in allConns: tcp, then tcp6, then udp
TableRank(table) ==
    CASE table = "tcp" -> 1 [] table = "tcp6" -> 2 [] OTHER -> 3

\* The orders in which the rows read can stand in allConns
RowOrders(rows) ==
    {f \in Orders(rows) :
        \A i, j \in 1..Cardinality(rows) :
            i < j => TableRank(f[i].table) <= TableRank(f[j].table)}

KeysOf(rows) == {connectionKey(parseLine(r)) : r \in rows}

\* A variant that never forgets a key
ForgetClosed_Never(known, current) == known

\* The clean-up at the end of scanConnections: keys not seen now are deleted
ForgetClosed(known, current) == known \cap current

\* The loop of scanConnections over allConns: a row whose key is not known
\* is recorded, then analysed, and the event analyzeConnection builds (if
\* it does not skip the row) is sent without blocking.
RECURSIVE ScanRowsFrom(_, _, _)
ScanRowsFrom(known, ch, rows) ==
    IF rows = << >>
    THEN [known |-> known, ch |-> ch, analysed |-> << >>, offers |-> << >>]
    ELSE LET conn == parseLine(Head(rows))
             key == connectionKey(conn)
         IN  IF key \in known
             THEN ScanRowsFrom(known, ch, Tail(rows))
             ELSE LET event == analyzeConnection(conn)
                      sent == event.emitted /\ CanSend(ch, ScanChanCap)
                      rest == ScanRowsFrom(known \cup {key},
                                           IF sent THEN Append(ch, event) ELSE ch,
                                           Tail(rows))
                  IN  [known |-> rest.known,
                       ch |-> rest.ch,
                       analysed |-> <<key>> \o rest.analysed,
                       offers |->
                           (IF event.emitted
                            THEN <<[event |-> event, key |-> key, sent |-> sent]>>
                            ELSE << >>) \o rest.offers]

\* scanConnections: the tables named in unread cannot be opened, the rows of
\* the others are read in some order
ScanConnections ==
    /\ Len(procScans) + Len(netScans) < MaxScans
    /\ \E present \in SUBSET ScanRows :
       \E unread \in {{}, {"tcp"}} :
       \E order \in RowOrders({r \in present : r.table \notin unread}) :
          LET read == {r \in present : r.table \notin unread}
              r == ScanRowsFrom(knownConns, scanChan, order)
          IN  /\ knownConns' = ForgetClosed(r.known, KeysOf(read))
              /\ scanChan' = r.ch
              /\ netScans' = Append(netScans,
                                    [prior |-> knownConns, present |-> present,
                                     read |-> read, analysed |-> r.analysed,
                                     offers |-> r.offers])
    /\ UNCHANGED <<ctrlVars, mainVars, agentVars, webhookVars, monitorVars,
                   lateVars, pureVars, knownProcs, procScans>>

ScanNext ==
    \/ ScanProcesses
    \/ ScanReadDirFails
    \/ ScanConnections
    \/ ScanChanRecv

ScanSpec == ScanInit /\ [][ScanNext]_vars

-----------------------------------------------------------------------------
(* The file monitor (pkg/fileintegrity): handleFsEvent on one fsnotify event *)

\* A path is the list of its components: /etc/passwd is <<"etc", "passwd">>.
fileCriticalPaths ==
    {<<"etc", "passwd">>, <<"etc", "shadow">>, <<"etc", "sudoers">>,
     <<"etc", "ssh", "sshd_config">>, <<"root", ".ssh", "authorized_keys">>}

highPaths ==
    {<<"etc", "crontab">>, <<"var", "spool", "cron">>, <<"etc", "cron.d">>,
     <<"etc", "profile">>, <<"etc", "bashrc">>, <<"root", ".bashrc">>,
     <<"root", ".profile">>}

suspiciousExts == {".sh", ".py", ".pl", ".rb", ".elf", ".so"}

\* filepath.Dir: the path without its last component
Dir(path) == IF path = << >> THEN << >> ELSE SubSeq(path, 1, Len(path) - 1)

\* filepath.Ext on the names that occur: the suffix of the last component
\* from its last dot, empty when it has no dot
Ext(path) ==
    LET name == IF path = << >> THEN "" ELSE path[Len(path)]
    IN  CASE name \in {"job.sh", "foo.sh"} -> ".sh"
          [] name = "x.py" -> ".py"
          [] name = "lib.so" -> ".so"
          [] name = "foo.txt" -> ".txt"
          [] name = "FOO.SH" -> ".SH"
          [] name = "cron.d" -> ".d"
          [] name \in {".bashrc", ".profile", ".ssh"} -> name
          [] OTHER -> ""

\* A variant of classifySeverity that looks at the extension before the
\* high-severity paths
classifySeverity_ExtensionFirst(path, operation, defaultSeverity) ==
    IF path \in fileCriticalPaths
    THEN SeverityCritical
    ELSE IF Ext(path) \in suspiciousExts /\ operation = "create"
         THEN SeverityMedium
         ELSE IF path \in highPaths \/ Dir(path) \in highPaths
              THEN SeverityHigh
              ELSE defaultSeverity

classifySeverity(path, operation, defaultSeverity) ==
    IF path \in fileCriticalPaths
    THEN SeverityCritical
    ELSE IF path \in highPaths \/ Dir(path) \in highPaths
         THEN SeverityHigh
         ELSE IF Ext(path) \in suspiciousExts /\ operation = "create"
              THEN SeverityMedium
              ELSE defaultSeverity

\* The switch of handleFsEvent over the bits of fsnotify.Op: the first case
\* that matches names the operation
Operation(op) ==
    CASE "Create" \in op -> "create"
      [] "Write" \in op -> "modify"
      [] "Remove" \in op -> "delete"
      [] "Rename" \in op -> "rename"
      [] "Chmod" \in op -> "chmod"
      [] OTHER -> ""

\* The severity handleFsEvent starts from for an operation
DefaultSeverity(operation) ==
    IF operation = "delete" THEN SeverityHigh ELSE SeverityMedium

\* handleFsEvent: the event it sends, none for an Op with no known bit
handleFsEvent(path, op) ==
    IF Operation(op) = ""
    THEN NoFileEvent
    ELSE [emitted |-> TRUE, operation |-> Operation(op),
          severity |-> classifySeverity(path, Operation(op),
                                        DefaultSeverity(Operation(op)))]

FilePaths ==
    fileCriticalPaths \cup highPaths \cup
    {<<"etc", "cron.d", "job.sh">>, <<"etc", "cron.d", "job">>,
     <<"var", "spool", "cron", "crontabs", "root">>,
     <<"tmp", "foo.sh">>, <<"tmp", "x.py">>, <<"tmp", "lib.so">>,
     <<"tmp", "foo.txt">>, <<"tmp", "FOO.SH">>, <<"etc", "passwd", "x">>}

FsOps == SUBSET {"Create", "Write", "Remove", "Rename", "Chmod"}

FileInit ==
    /\ WebhookIdle
    /\ MainIdle
    /\ AgentIdle
    /\ MonitorIdle
    /\ ControllerIdle
    /\ LateIdle
    /\ GetIdle
    /\ SinkIdle
    /\ ScanIdle
    /\ fileIn \in [path : FilePaths, op : FsOps]
    /\ fileOut = [done |-> FALSE, event |-> NoFileEvent]

FileStep ==
    /\ ~fileOut.done
    /\ fileOut' = [done |-> TRUE, event |-> handleFsEvent(fileIn.path, fileIn.op)]
    /\ UNCHANGED <<ctrlVars, mainVars, agentVars, webhookVars, monitorVars,
                   lateVars, scanVars, getIn, getOut, sinkIn, sinkOut, fileIn>>

FileNext == FileStep

FileSpec == FileInit /\ [][FileNext]_vars

-----------------------------------------------------------------------------
(* The file monitor's baseline (pkg/fileintegrity): New, hashFile and the   *)
(* fsnotify events handleFsEvent handles for one watched file               *)

MaxHashSize == 10485760  \* 10*1024*1024: files above it are not hashed

\* The file the monitor was configured to watch
WatchedFile == <<"etc", "passwd">>

\* hex.EncodeToString(hasher.Sum(nil)) of the contents that occur
Sha256(content) ==
    CASE content = "c1" -> "9a3f"
      [] content = "c2" -> "04be"
      [] OTHER -> "e3b0"

\* What os.Stat and os.Open can find at the path: nothing, a directory, or
\* a regular file with its content, size, mode, mtime and whether it opens
Directory ==
    [kind |-> "dir", content |-> "", size |-> 0, mode |-> "drwxr-xr-x",
     mtime |-> 1, readable |-> TRUE]

FileStates ==
    {AbsentFile, Directory} \cup
    [kind : {"regular"}, content : {"c1", "c2"},
     size : {MaxHashSize, MaxHashSize + 1},
     mode : {"-rw-r--r--", "-rw-------"}, mtime : {1, 2},
     readable : BOOLEAN]

\* The fsnotify.Op values the watcher delivers: one bit each, or none of
\* the five
NotifiedOps == {{"Create"}, {"Write"}, {"Remove"}, {"Rename"}, {"Chmod"}, {}}

\* hashFile, what it returns: nil when Stat fails, for a directory or a
\* file that is not regular, for a file above the size limit, and when the
\* file cannot be opened or read
hashFile(f) ==
    IF f.kind = "absent"
    THEN NoFileHash
    ELSE IF f.kind # "regular"
    THEN NoFileHash
    ELSE IF f.size > MaxHashSize
    THEN NoFileHash
    ELSE IF ~f.readable
    THEN NoFileHash
    ELSE [present |-> TRUE, hash |-> Sha256(f.content), mode |-> f.mode,
          mtime |-> f.mtime, size |-> f.size]

\* hashFile, what it does to the baseline: fm.baseline[path] = hash on the
\* one path that does not return nil, nothing on the others
StoreHash(bl, path, h) ==
    IF h.present
    THEN [p \in DOMAIN bl \cup {path} |-> IF p = path THEN h ELSE bl[p]]
    ELSE bl

\* fm.baseline[path]: nil for a path with no entry
BaselineEntry(bl, path) == IF path \in DOMAIN bl THEN bl[path] ELSE NoFileHash

\* handleFsEvent, the baseline it leaves: untouched for an Op with none of
\* the five bits, the entry deleted when the Remove bit is set, hashFile
\* otherwise
BaselineAfter(bl, path, op, f) ==
    IF Operation(op) = ""
    THEN bl
    ELSE IF "Remove" \notin op
         THEN StoreHash(bl, path, hashFile(f))
         ELSE [p \in DOMAIN bl \ {path} |-> bl[p]]

\* handleFsEvent, the event it builds: old_hash from the entry found before
\* the baseline is touched, new_hash from what hashFile returned
FileEventOf(bl, path, op, f) ==
    LET ev == handleFsEvent(path, op)
        newHash == IF "Remove" \notin op THEN hashFile(f) ELSE NoFileHash
    IN  IF ~ev.emitted
        THEN NoBaselineEvent
        ELSE [emitted |-> TRUE, operation |-> ev.operation,
              severity |-> ev.severity,
              old_hash |-> BaselineEntry(bl, path).hash,
              new_hash |-> newHash.hash]

BaselineInit ==
    /\ WebhookIdle
    /\ MainIdle
    /\ AgentIdle
    /\ MonitorIdle
    /\ ControllerIdle
    /\ GetIdle
    /\ SinkIdle
    /\ FileIdle
    /\ ScanIdle
    /\ TrackIdle
    /\ PipeIdle
    /\ fsys \in FileStates
    /\ baseline = StoreHash(<< >>, WatchedFile, hashFile(fsys))
    /\ fimLast = [handled |-> FALSE, op |-> {}, seen |-> AbsentFile,
                  before |-> NoFileHash, event |-> NoBaselineEvent]

\* Something outside the monitor changes the watched file.
FsChange ==
    /\ \E f \in FileStates : f # fsys /\ fsys' = f
    /\ UNCHANGED <<ctrlVars, mainVars, agentVars, webhookVars, monitorVars,
                   pureVars, scanVars, baseline, fimLast, snapshot, calls,
                   pipe>>

\* Start receives one event from watcher.Events and runs handleFsEvent on it.
HandleFsEvent ==
    /\ \E op \in NotifiedOps :
         /\ baseline' = BaselineAfter(baseline, WatchedFile, op, fsys)
         /\ fimLast' = [handled |-> TRUE, op |-> op, seen |-> fsys,
                        before |-> BaselineEntry(baseline, WatchedFile),
                        event |-> FileEventOf(baseline, WatchedFile, op, fsys)]
    /\ UNCHANGED <<ctrlVars, mainVars, agentVars, webhookVars, monitorVars,
                   pureVars, scanVars, fsys, snapshot, calls, pipe>>

BaselineNext ==
    \/ FsChange
    \/ HandleFsEvent

BaselineSpec == BaselineInit /\ [][BaselineNext]_vars

-----------------------------------------------------------------------------
(* One event from its monitor to the sink: EventCollector.eventToJSON,      *)
(* Server.handleEvents, Controller.evaluateEvent, SendHighSeverityEvent     *)

\* A variant of severityToString without the case for SeverityLow
severityToString_NoLow(s) ==
    CASE s = SeverityCritical -> "CRITICAL"
      [] s = SeverityHigh -> "HIGH"
      [] s = SeverityMedium -> "MEDIUM"
      [] s = SeverityInfo -> "INFO"
      [] OTHER -> "UNKNOWN"

\* severityToString
severityToString(s) ==
    CASE s = SeverityCritical -> "CRITICAL"
      [] s = SeverityHigh -> "HIGH"
      [] s = SeverityMedium -> "MEDIUM"
      [] s = SeverityLow -> "LOW"
      [] s = SeverityInfo -> "INFO"
      [] OTHER -> "UNKNOWN"

\* A collector.SecurityEvent as a monitor builds it: a Severity value and
\* the payload pointers it set
MonitorEvent(sev, proc, net, file) ==
    [severity |-> sev, process |-> proc, network |-> net, file |-> file]

\* The events of the three monitors, one payload each, at every Severity
MonitorEvents ==
    {MonitorEvent(s, p[1], p[2], p[3]) :
        s \in SeverityUnknown..SeverityCritical,
        p \in {<<Process(<<"shell_spawn">>), NoNetwork, NoFile>>,
               <<NoProcess, Network(TRUE, 4444), NoFile>>,
               <<NoProcess, NoNetwork, File("/etc/passwd", "modify")>>}}

\* eventToJSON: the ControllerEvent that is marshalled.  AgentID comes from
\* the collector's config, Severity from severityToString, and each payload
\* that is set is copied.
eventToJSON(event, agentID) ==
    SecurityEvent(0, agentID, severityToString(event.severity),
                  event.process, event.network, event.file)

\* No sweetsecurity.Event
NoSweetEvent == [id |-> 0, agent_id |-> "", severity |-> ""]

NoMonitorEvent == MonitorEvent(SeverityUnknown, NoProcess, NoNetwork, NoFile)

PipeInit ==
    /\ WebhookIdle
    /\ MainIdle
    /\ AgentIdle
    /\ MonitorIdle
    /\ ControllerIdle
    /\ GetIdle
    /\ SinkIdle
    /\ FileIdle
    /\ ScanIdle
    /\ BaselineIdle
    /\ TrackIdle
    /\ pipe \in [stage : {"built"}, event : MonitorEvents, agent : AgentIds,
                 client : BOOLEAN, body : {NotJSON}, admitted : {NoEvent},
                 relayed : {NoSweetEvent}, counted : {""}]

\* sendEvent: the collector marshals the event and POSTs it.
PipePost ==
    /\ pipe.stage = "built"
    /\ pipe' = [pipe EXCEPT
                  !.stage = "posted",
                  !.body = [json |-> TRUE,
                            event |-> eventToJSON(pipe.event, pipe.agent)]]
    /\ UNCHANGED <<ctrlVars, mainVars, agentVars, webhookVars, monitorVars,
                   pureVars, scanVars, fsys, baseline, fimLast, snapshot,
                   calls>>

\* handleEvents with room on the event queue: the body is decoded, the event
\* is queued, and SendHighSeverityEvent builds the object for the sink when
\* the severity is HIGH or CRITICAL and a client is set.
PipeIngest ==
    /\ pipe.stage = "posted"
    /\ LET d == Decode(pipe.body, 1) IN
       pipe' = [pipe EXCEPT
                  !.stage = "admitted",
                  !.admitted = d.event,
                  !.relayed = IF IsHighSeverity(d.event.severity) /\ pipe.client
                              THEN SweetEvent(d.event)
                              ELSE NoSweetEvent]
    /\ UNCHANGED <<ctrlVars, mainVars, agentVars, webhookVars, monitorVars,
                   pureVars, scanVars, fsys, baseline, fimLast, snapshot,
                   calls>>

\* evaluateEvent: eventsReceived is incremented under the event's severity
\* label.
PipeCount ==
    /\ pipe.stage = "admitted"
    /\ pipe' = [pipe EXCEPT !.stage = "counted",
                            !.counted = pipe.admitted.severity]
    /\ UNCHANGED <<ctrlVars, mainVars, agentVars, webhookVars, monitorVars,
                   pureVars, scanVars, fsys, baseline, fimLast, snapshot,
                   calls>>

PipeNext ==
    \/ PipePost
    \/ PipeIngest
    \/ PipeCount

PipeSpec == PipeInit /\ [][PipeNext]_vars

-----------------------------------------------------------------------------
(* The agents map under direct calls: IngestEvent and GetAgents called by   *)
(* the HTTP handlers or a test, checkAgentHealth and the other goroutines   *)
(* of Start running beside them                                             *)

MaxCalls == 3   \* IngestEvent calls over a run

TrackInit ==
    /\ WebhookIdle
    /\ MonitorIdle
    /\ MainIdle
    /\ AgentIdle
    /\ GetIdle
    /\ SinkIdle
    /\ FileIdle
    /\ ScanIdle
    /\ BaselineIdle
    /\ PipeIdle
    /\ HistIdle
    /\ cfg \in Configs
    /\ now = 0
    /\ agents = << >>
    /\ handlers = [h \in Handlers |-> Idle]
    /\ eventBuffer = << >>
    /\ evalPending = << >>
    /\ alertChan = << >>
    /\ alerts = << >>
    /\ relays = {}
    /\ sinkCalls = {}
    /\ requests = 0
    /\ response = [method |-> "", json |-> FALSE, status |-> 0]
    /\ evalIn = NoEvent
    /\ evalOut = [done |-> FALSE, alerts |-> << >>]
    /\ snapshot = [taken |-> FALSE, at |-> << >>, cur |-> << >>, live |-> {}]
    /\ calls = [a \in AgentIds |-> 0]

\* What the pointers a caller of GetAgents holds read after IngestEvent has
\* turned the map ag into ag1: a pointer that is still the map's entry reads
\* the record IngestEvent wrote to, the others read what they read before.
ReadThrough(snap, ag1) ==
    [a \in DOMAIN snap.cur |->
        IF a \in snap.live /\ a \in DOMAIN ag1 THEN ag1[a] ELSE snap.cur[a]]

\* IngestEvent: the update of the agents map under agentsMu, then the
\* non-blocking send on eventBuffer.  The map holds pointers, so the update
\* of an existing record is seen through every copy of its pointer.
IngestEvent ==
    /\ requests < MaxCalls
    /\ requests' = requests + 1
    /\ \E body \in PostedEvents :
         LET e == [body EXCEPT !.id = requests + 1]
             room == CanSend(eventBuffer, cfg.EventBufferSize)
         IN  /\ agents' = UpdateAgent(agents, e, now)
             /\ calls' = [calls EXCEPT ![e.agent_id] = @ + 1]
             /\ snapshot' = [snapshot EXCEPT
                               !.cur = ReadThrough(snapshot,
                                                   UpdateAgent(agents, e, now))]
             /\ eventBuffer' = IF room THEN Append(eventBuffer, e)
                                       ELSE eventBuffer
             /\ admitted' = IF room THEN admitted \cup {e.id} ELSE admitted
    /\ UNCHANGED <<mainVars, agentVars, webhookVars, monitorVars, pureVars,
                   scanVars, fsys, baseline, fimLast, pipe, cfg, now, handlers,
                   evalPending, alertChan, alerts, relays, sinkCalls,
                   cancelled, delivered, response, evalIn, evalOut>>

\* GetAgents: a new slice holding the pointers that are in the map.
GetAgents ==
    /\ ~snapshot.taken
    /\ snapshot' = [taken |-> TRUE, at |-> agents, cur |-> agents,
                    live |-> DOMAIN agents]
    /\ UNCHANGED <<ctrlVars, mainVars, agentVars, webhookVars, monitorVars,
                   pureVars, scanVars, fsys, baseline, fimLast, pipe, calls>>

\* checkAgentHealth: one firing of the ticker.  A deleted entry leaves the
\* record it pointed to as it is; the map no longer points to it.
TrackCheckAgentHealth ==
    /\ agents' = SweepAgents(agents, now, cfg.AgentStaleThreshold)
    /\ calls' = [a \in AgentIds |->
                   IF a \in DOMAIN agents /\ a \notin DOMAIN agents'
                   THEN 0
                   ELSE calls[a]]
    /\ snapshot' = [snapshot EXCEPT !.live = @ \cap DOMAIN agents']
    /\ UNCHANGED <<mainVars, agentVars, webhookVars, monitorVars, pureVars,
                   scanVars, fsys, baseline, fimLast, pipe, cfg, now, handlers,
                   eventBuffer, evalPending, alertChan, alerts, relays,
                   sinkCalls, histVars, requests, response, evalIn, evalOut>>

TrackNext ==
    \/ IngestEvent
    \/ GetAgents
    \/ TrackCheckAgentHealth
    \/ ProcessEvents
    \/ EvaluateOffer
    \/ ProcessAlerts
    \/ Tick

TrackSpec == TrackInit /\ [][TrackNext]_vars

-----------------------------------------------------------------------------
(* Properties *)

Min(a, b) == IF a <= b THEN a ELSE b

\* The last n entries of s (all of s when it has fewer)
LastN(s, n) ==
    LET k == Min(n, Len(s))
    IN  [i \in 1..k |-> s[Len(s) - k + i]]

\* The step is worker h finishing IngestEvent for the event it holds.
IngestReturns(h) == handlers[h].pc = "send" /\ handlers'[h].pc = "idle"

\* The step is worker h beginning IngestEvent for a decoded event.
IngestBegins(h) == handlers[h].pc = "idle" /\ handlers'[h].pc = "send"

\* The step is processAlerts taking an alert off alertChan.
AlertStored == Len(alertChan') < Len(alertChan)

C2_IngestNonBlocking ==
    /\ [](Len(eventBuffer) <= cfg.EventBufferSize)
    /\ [](\A h \in Handlers : handlers[h].pc = "send" => ENABLED HandleEventsSend(h))
    /\ [][\A h \in Handlers : IngestReturns(h) =>
            IF Len(eventBuffer) >= cfg.EventBufferSize
            THEN response'.status = 503 /\ eventBuffer' = eventBuffer
            ELSE /\ response'.status = 202
                 /\ eventBuffer' = eventBuffer \o <<handlers[h].event>>]_vars

\* C2 witness: a request has been refused with the queue full.
C2_Witness ==
    /\ response.status = 503
    /\ Len(eventBuffer) = cfg.EventBufferSize

\* C3: the AgentInfo update does not depend on queue admission: every
\* decoded event creates its agent's record (event_count 1) or refreshes
\* last_seen and increments event_count, whether or not the queue is full,
\* and a refusal with 503 leaves the agents map as updated.
C3_UpdateBeforeAdmission ==
    [][\A h \in Handlers :
         /\ IngestBegins(h) =>
              LET a == handlers'[h].event.agent_id IN
              /\ a \in DOMAIN agents'
              /\ agents'[a].last_seen = now
              /\ agents'[a].event_count =
                   IF a \in DOMAIN agents THEN agents[a].event_count + 1 ELSE 1
         /\ IngestReturns(h) /\ response'.status = 503 => agents' = agents ]_vars

\* C3 witness: two events of agent a1 were received, the second was refused
\* with 503, and a1's event_count is 2.
C3_Witness ==
    /\ requests = 2
    /\ response.status = 503
    /\ Len(eventBuffer) = 1 /\ eventBuffer[1].agent_id = "a1" /\ eventBuffer[1].id = 1
    /\ "a1" \in DOMAIN agents /\ agents["a1"].event_count = 2

\* The event with this id is in the event queue (it has been admitted).
Queued(id) == \E i \in 1..Len(eventBuffer) : eventBuffer[i].id = id

QueuedEvent(id) ==
    eventBuffer[CHOOSE i \in 1..Len(eventBuffer) : eventBuffer[i].id = id]

EventIds == 1..MaxRequests

\* C4: whenever IngestEvent admits an event to the queue, the record of the
\* event's agent exists and its last_seen is not earlier than the clock
\* value IngestEvent read for that event.
C4_AdmittedAgentTracked ==
    [][\A h \in Handlers :
         IngestReturns(h) /\ response'.status = 202 =>
            LET a == handlers[h].event.agent_id IN
            /\ a \in DOMAIN agents'
            /\ agents'[a].last_seen >= handlers[h].seen]_vars

\* C5: with the sink configured, every admitted event of severity HIGH or
\* CRITICAL leads to an invocation of SendEvent with an object carrying
\* the event's id.
C5_HighSeverityRelayed ==
    \A id \in EventIds :
        (/\ SinkConfigured(cfg)
         /\ Queued(id)
         /\ QueuedEvent(id).severity \in {"HIGH", "CRITICAL"})
        ~> (\E c \in sinkCalls : c.id = id)

\* C5 witness: SendEvent has been invoked for a HIGH event and for a
\* CRITICAL one.
C5_Witness ==
    /\ \E c \in sinkCalls : c.severity = "HIGH"
    /\ \E c \in sinkCalls : c.severity = "CRITICAL"

\* C6: in a Controller built from a config that sets only the two buffer
\* sizes, an admitted event whose process payload carries
\* possible_cryptominer, admitted as in the test while no alert of an
\* earlier event is waiting, leads to an APSS-002 CRITICAL alert for that
\* event among the alerts GetAlerts(10) returns.
C6_CryptominerAlertReturned ==
    \A id \in EventIds :
        (/\ cfg = TestConfig
         /\ alertChan = <<>> /\ evalPending = <<>>
         /\ Queued(id)
         /\ QueuedEvent(id).process.present
         /\ "possible_cryptominer" \in
               {QueuedEvent(id).process.indicators[k] :
                   k \in 1..Len(QueuedEvent(id).process.indicators)})
        ~> (\E j \in 1..Len(GetAlerts(alerts, 10)) :
              /\ GetAlerts(alerts, 10)[j].rule_id = "APSS-002"
              /\ GetAlerts(alerts, 10)[j].severity = "CRITICAL"
              /\ GetAlerts(alerts, 10)[j].event_ids = <<id>>)

RuleIds == <<"APSS-001", "APSS-002", "APSS-003", "APSS-004", "APSS-005">>

RuleNumber(id) == CHOOSE i \in 1..Len(RuleIds) : RuleIds[i] = id

\* The alerts in the order they pass: stored, queued, still to be offered.
Pipeline == alerts \o alertChan \o evalPending

Range(list) == {list[i] : i \in 1..Len(list)}

\* The predicate the rule table gives for each built-in rule
RuleHolds(id, e) ==
    CASE id = "APSS-001" ->
            /\ e.network.present
            /\ e.network.is_external
            /\ e.network.dst_port \in {4444, 5555, 6666, 1337}
      [] id = "APSS-002" ->
            e.process.present /\ "possible_cryptominer" \in Range(e.process.indicators)
      [] id = "APSS-003" ->
            /\ e.file.present
            /\ e.file.operation = "modify"
            /\ e.file.path \in {"/etc/passwd", "/etc/shadow", "/etc/sudoers"}
      [] id = "APSS-004" ->
            e.process.present /\ "shell_spawn" \in Range(e.process.indicators)
      [] id = "APSS-005" ->
            /\ e.network.present
            /\ e.network.is_external
            /\ e.network.dst_port \in {3306, 5432, 27017, 6379, 9200}

RuleSeverity(id) ==
    CASE id \in {"APSS-001", "APSS-002"} -> "CRITICAL"
      [] id = "APSS-003" -> "HIGH"
      [] id \in {"APSS-004", "APSS-005"} -> "MEDIUM"

\* C8: Evaluate returns exactly one alert for each built-in rule whose
\* predicate holds and none for the others, and each alert carries its
\* rule's id and severity and the event's id, pod name and namespace.
C8_EvaluateMatchesRules ==
    evalOut.done =>
        /\ \A r \in Range(RuleIds) :
              Cardinality({i \in 1..Len(evalOut.alerts) : evalOut.alerts[i].rule_id = r})
                 = IF RuleHolds(r, evalIn) THEN 1 ELSE 0
        /\ \A i \in 1..Len(evalOut.alerts) :
              /\ evalOut.alerts[i].rule_id \in Range(RuleIds)
              /\ evalOut.alerts[i].severity = RuleSeverity(evalOut.alerts[i].rule_id)
              /\ evalOut.alerts[i].event_ids = <<evalIn.id>>
              /\ evalOut.alerts[i].pod_name = evalIn.pod_name
              /\ evalOut.alerts[i].pod_ns = evalIn.pod_namespace

\* C8 witness: Evaluate has returned four alerts for one event (a reverse
\* shell port, both process indicators and a modified critical file).
C8_Witness ==
    /\ evalOut.done
    /\ Len(evalOut.alerts) = 4
    /\ evalOut.alerts[1].rule_id = "APSS-001"

\* Requests answered so far
Answered == requests - Cardinality({h \in Handlers : handlers[h].pc # "idle"})

\* C9: every answer of POST /api/v1/events is 405 for a non-POST method and
\* 400 for a POST body that does not decode, both leaving the agents map
\* and the event queue unchanged; for a decoded event it is 503 when the
\* queue is full and 202 when the event has been queued.
C9_StatusCodes ==
    [][Answered' = Answered + 1 =>
         /\ response'.method # "POST" =>
               response'.status = 405 /\ agents' = agents /\ eventBuffer' = eventBuffer
         /\ response'.method = "POST" /\ ~response'.json =>
               response'.status = 400 /\ agents' = agents /\ eventBuffer' = eventBuffer
         /\ response'.method = "POST" /\ response'.json =>
               IF Len(eventBuffer) >= cfg.EventBufferSize
               THEN response'.status = 503 /\ eventBuffer' = eventBuffer
               ELSE response'.status = 202 /\ Len(eventBuffer') = Len(eventBuffer) + 1
      ]_vars

\* C9 witness: after one event was queued, a GET request has been answered
\* 405.
C9_Witness ==
    /\ response.method = "GET" /\ response.status = 405
    /\ requests = 2
    /\ Len(eventBuffer) = 1

\* The agent's last_seen is older than AgentStaleThreshold.
Older(a) == now - agents[a].last_seen > cfg.AgentStaleThreshold

\* C10: a step that removes agents removes exactly those whose last_seen is
\* older than AgentStaleThreshold and leaves the others as they were; no
\* agent seen within the threshold is ever removed; and an agent whose
\* last_seen has become older than the threshold is eventually removed,
\* unless a new event refreshes it first.
C10_SweepExact ==
    /\ [][ /\ DOMAIN agents' # DOMAIN agents /\ DOMAIN agents' \subseteq DOMAIN agents =>
               \A a \in DOMAIN agents :
                  IF Older(a) THEN a \notin DOMAIN agents'
                  ELSE a \in DOMAIN agents' /\ agents'[a] = agents[a]
           /\ \A a \in DOMAIN agents : a \notin DOMAIN agents' => Older(a) ]_vars
    /\ \A a \in AgentIds :
          (a \in DOMAIN agents /\ Older(a))
             ~> (a \notin DOMAIN agents \/ ~Older(a))

\* C10 witness: agent a1, seen at 0, has been removed by the sweep at 3
\* while a2, seen at 1 and exactly AgentStaleThreshold old, was kept.
C10_Witness ==
    /\ cfg.AgentStaleThreshold = StaleThreshold
    /\ now = 3
    /\ DOMAIN agents = {"a2"}
    /\ agents["a2"].last_seen = 1
    /\ \E i \in 1..Len(eventBuffer) : eventBuffer[i].agent_id = "a1"

\* C11: last_seen of an agent never decreases. No record is ever ahead of
\* the clock, a step that keeps a record does not lower its last_seen, and
\* a step that creates a record (for the first time or again after a sweep
\* removed it) gives it a last_seen not before the clock; the clock itself
\* never goes back, so no later value is below an earlier one.
C11_LastSeenMonotone ==
    /\ [](\A a \in DOMAIN agents : agents[a].last_seen <= now)
    /\ [][/\ now' >= now
          /\ \A a \in DOMAIN agents' :
                IF a \in DOMAIN agents
                THEN agents'[a].last_seen >= agents[a].last_seen
                ELSE agents'[a].last_seen >= now]_vars

\* C11 witness: both requests came from a1 (the sink was called for both),
\* and a1's record counts one event and was last seen at 3: the sweep
\* removed the first record and the second request created it again.
C11_Witness ==
    /\ \A id \in {1, 2} : \E c \in sinkCalls : c.id = id /\ c.agent_id = "a1"
    /\ "a1" \in DOMAIN agents
    /\ agents["a1"].event_count = 1
    /\ agents["a1"].last_seen = 3

\* C12: when the controller process has shut down after the signal (main
\* has returned, which ends the drain period), the context given to Start
\* has been cancelled and processEvents, processAlerts and checkAgentHealth
\* have returned.
C12_WorkersReturnOnShutdown ==
    (caller = "main" /\ mainPc = "exited") => (ctxDone /\ running = {})

\* C13: a Shutdown called while Start is running completes with every
\* goroutine of the Monitor returned, and not by its deadline expiring; a
\* Shutdown of a Monitor that was never started can return at once.
C13_ShutdownStopsMonitors ==
    /\ (shutdown.whileStarted /\ shutdown.pc \in {"stopped", "timeout"}) =>
          (shutdown.pc = "stopped" /\ monRunning = {})
    /\ (shutdown.pc = "waiting" /\ ~started) => ENABLED ShutdownDone

\* How often the event was POSTed
PostsOf(log, e) == Cardinality({i \in 1..Len(log) : log[i] = e})

\* A call of processEvent returns.
ProcessEventReturns == processed' = processed + 1

\* Exactly one of the two counters goes up, by one.
OneCounterUp ==
    \/ eventsSent' = eventsSent + 1 /\ eventsDropped' = eventsDropped
    \/ eventsSent' = eventsSent /\ eventsDropped' = eventsDropped + 1

\* C14 as stated: every processed event was POSTed exactly once and then
\* counted once, as sent if the status was 202 and as dropped otherwise;
\* sent + dropped is the number of processed events.
C14_ExactlyOnePost ==
    /\ [](eventsSent + eventsDropped = processed)
    /\ [][ProcessEventReturns =>
             /\ PostsOf(posts', collecting'.event) = 1
             /\ OneCounterUp
             /\ (eventsSent' = eventsSent + 1) <=> (collecting'.status = 202)]_vars

\* C14, amended: every processed event was POSTed at most once, exactly
\* once unless sendEvent failed before making a request (no endpoint, or a
\* request that cannot be built), and then counted once: as sent if it was
\* POSTed and the status was 202, as dropped otherwise; sent + dropped is
\* the number of processed events and no event is POSTed twice.
C14_AtMostOnePost ==
    /\ [](eventsSent + eventsDropped = processed)
    /\ [](\A i, j \in 1..Len(posts) : posts[i] = posts[j] => i = j)
    /\ [][ProcessEventReturns =>
             /\ PostsOf(posts', collecting'.event)
                   = IF NoRequest(endpoint) THEN 0 ELSE 1
             /\ collecting'.posted <=> ~NoRequest(endpoint)
             /\ OneCounterUp
             /\ (eventsSent' = eventsSent + 1)
                   <=> (collecting'.posted /\ collecting'.status = 202)]_vars

\* C14 witness: two events have been processed, both POSTed, one answered
\* 202 and counted as sent, the other counted as dropped.
C14_Witness ==
    /\ processed = 2
    /\ Len(posts) = 2
    /\ eventsSent = 1
    /\ eventsDropped = 1

\* C15: at most one POST is awaiting its response, and the events of one
\* monitor are POSTed in the order the monitor put them on the channel.
C15_SerialInOrder ==
    /\ Cardinality(inflight) <= 1
    /\ \A i, j \in 1..Len(posts) :
          (i < j /\ posts[i].monitor = posts[j].monitor) =>
              posts[i].seq < posts[j].seq

\* C15 witness: three events were POSTed, the first and the last from the
\* process monitor with one of another monitor between them, and the last
\* POST is awaiting its response.
C15_Witness ==
    /\ Len(posts) = 3
    /\ posts[1].monitor = "procMon" /\ posts[3].monitor = "procMon"
    /\ posts[2].monitor = "netMon"
    /\ inflight = {posts[3]}

\* The pod ProcessAdmissionReview decoded from the review under test
WhPod == DecodePod(whIn.raw)

\* A skip predicate, as the rule states them, holds for the review.
SkipPredicateHolds ==
    \/ whIn.namespace \in {"kube-system", "kube-public", "apss-system"}
    \/ \E i \in 1..Len(WhPod.Containers) : WhPod.Containers[i] = "apss-agent"
    \/ <<"apss.invisible.tech/inject", "false">> \in whIn.raw.annotations.value
    \/ whIn.raw.hostNetwork

\* The review is a decodable pod: the mutator looks at it.
MutatorRan == whOut.done /\ whIn.hasRequest /\ whIn.kind = "Pod" /\ whIn.raw.decodable

WhOps == whOut.response.patch.ops

OpsWithPath(paths) == {i \in 1..Len(WhOps) : WhOps[i].path \in paths}

\* C16: a pod for which a skip predicate holds gets no patch; any other pod
\* gets one container operation, one volume operation (add or append), one
\* annotation operation (add or extend), and a shareProcessNamespace
\* operation exactly when shareProcessNamespace was not already true.
C16_SkipOrPatch ==
    MutatorRan =>
        IF SkipPredicateHolds
        THEN ~whOut.response.patch.present /\ WhOps = << >>
        ELSE /\ whOut.response.patch.present
             /\ Len(WhOps) >= 3
             /\ Cardinality(OpsWithPath({"/spec/containers/-"})) = 1
             /\ Cardinality(OpsWithPath({"/spec/volumes", "/spec/volumes/-"})) = 1
             /\ Cardinality(OpsWithPath(
                   {"/metadata/annotations",
                    "/metadata/annotations/apss.invisible.tech~1injected"})) = 1
             /\ Cardinality(OpsWithPath({"/spec/shareProcessNamespace"}))
                   = IF whIn.raw.shareProcessNamespace = Opt(TRUE) THEN 0 ELSE 1
             /\ \A i \in 1..Len(WhOps) : WhOps[i].op = "add"

\* C16 witness: a pod with shareProcessNamespace already true has been
\* given exactly three operations.
C16_Witness ==
    /\ MutatorRan
    /\ whIn.raw.shareProcessNamespace = Opt(TRUE)
    /\ Len(WhOps) = 3

\* The submitted pod with the returned operations applied
Patched == ApplyPatch(whIn.raw, WhOps)

\* Which part of the pod an operation is about: 1 container, 2 volume,
\* 3 shareProcessNamespace, 4 annotation
OpPart(op) ==
    LET t == Tokens(op.path) IN
    IF t[2] = "containers" THEN 1
    ELSE IF t[2] = "volumes" THEN 2
    ELSE IF t[2] = "shareProcessNamespace" THEN 3
    ELSE 4

\* The patch applies and the patched pod has the sidecar, the volume, the
\* shared process namespace and the annotation.
Injected ==
    /\ \A i, j \in 1..Len(WhOps) : i < j => OpPart(WhOps[i]) < OpPart(WhOps[j])
    /\ Patched.ok
    /\ Contains(Patched.containers.value, "apss-agent")
    /\ Patched.shareProcessNamespace = Opt(TRUE)
    /\ Patched.volumes.present /\ Contains(Patched.volumes.value, "apss-proc")
    /\ Patched.annotations.present
    /\ <<"apss.invisible.tech/injected", "true">> \in Patched.annotations.value

\* C17 as stated: for every pod for which no skip predicate holds the
\* operations come in the order container, volume, shareProcessNamespace,
\* annotation, apply cleanly to the submitted pod, and give a pod with the
\* apss-agent container, shareProcessNamespace true, the apss-proc volume
\* and the injected annotation.
C17_PatchApplies ==
    (MutatorRan /\ ~SkipPredicateHolds) => Injected

\* The same restricted to pods whose spec has a containers list (possibly
\* empty) for the sidecar to be appended to.
C17_PatchAppliesToContainerList ==
    (MutatorRan /\ ~SkipPredicateHolds /\ whIn.raw.containers.present) => Injected

\* A pod that already had a volume and annotations, one of them
\* the injected annotation with another value, has been patched.
PatchedPodWithVolumeAndAnnotations ==
    /\ MutatorRan /\ ~SkipPredicateHolds
    /\ whIn.raw.containers = Opt(<<"app">>)
    /\ whIn.raw.volumes = Opt(<<"data">>)
    /\ <<"apss.invisible.tech/injected", "false">> \in whIn.raw.annotations.value
    /\ Patched.volumes.value = <<"data", "apss-proc">>
    /\ Patched.annotations.value
          = {<<"apss.invisible.tech/injected", "true">>, <<"team", "a">>}

\* C18: every admission response echoes the request UID and has patchType
\* JSONPatch whenever it has a patch; it is allowed for a non-Pod object,
\* for a skipped pod (without a patch) and for an injected pod (with one);
\* it is refused exactly when the pod cannot be decoded, and then carries a
\* message.
C18_ResponseShape ==
    (whOut.done /\ ~whOut.response.err) =>
        LET r == whOut.response IN
        /\ whIn.hasRequest
        /\ r.uid = whIn.uid
        /\ r.patch.present => r.patchType = "JSONPatch"
        /\ whIn.kind # "Pod" => (r.allowed /\ ~r.patch.present)
        /\ (MutatorRan /\ SkipPredicateHolds) => (r.allowed /\ ~r.patch.present)
        /\ (MutatorRan /\ ~SkipPredicateHolds) => (r.allowed /\ r.patch.present)
        /\ ~r.allowed <=> (whIn.kind = "Pod" /\ ~whIn.raw.decodable)
        /\ ~r.allowed => r.message # ""

\* C18 witness: request req-2 carried something that is not a pod and has
\* been refused with a message.
C18_Witness ==
    /\ whOut.done
    /\ whIn.uid = "req-2"
    /\ whIn.kind = "Pod" /\ ~whIn.raw.decodable
    /\ ~whOut.response.allowed
    /\ whOut.response.message # ""
    /\ whOut.response.uid = "req-2"

\* The severity an indicator implies on its own
ImpliedSeverity(indicator) ==
    IF indicator \in {"possible_reverse_shell", "possible_cryptominer"}
    THEN SeverityCritical
    ELSE IF indicator = "shell_spawn"
         THEN SeverityMedium
         ELSE SeverityHigh

MaxOf(S) == CHOOSE m \in S : \A x \in S : x <= m

AnyReverseShellMatch == procIn.rsMatched # {}

\* C19: the severity of the process_start event is the maximum of the
\* severities its indicators imply (matches_pattern HIGH, possible_reverse_shell
\* and possible_cryptominer CRITICAL, shell_spawn MEDIUM), INFO when it has
\* no indicator; every indicator is one of those four kinds; and a command
\* line matching any reverse-shell pattern gives an event that carries
\* possible_reverse_shell and has severity CRITICAL.
C19_SeverityIsMaxOfIndicators ==
    procOut.done =>
        LET ev == procOut.event
        IN  /\ \A i \in 1..Len(ev.indicators) :
                  \/ ev.indicators[i] \in
                        {"possible_reverse_shell", "possible_cryptominer",
                         "shell_spawn"}
                  \/ \E k \in 1..Len(suspiciousPatterns) :
                        ev.indicators[i] = MatchesPattern(suspiciousPatterns[k])
            /\ ev.severity =
                  MaxOf({SeverityInfo} \cup
                        {ImpliedSeverity(ev.indicators[i]) :
                            i \in 1..Len(ev.indicators)})
            /\ AnyReverseShellMatch =>
                  /\ "possible_reverse_shell" \in Range(ev.indicators)
                  /\ ev.severity = SeverityCritical

\* An interactive shell that also matches a configured pattern: the event
\* carries matches_pattern and shell_spawn and keeps severity HIGH.
C19_Witness ==
    /\ procOut.done
    /\ isShellSpawn(procIn)
    /\ procOut.event.indicators = <<MatchesPattern("nc"), "shell_spawn">>
    /\ procOut.event.severity = SeverityHigh

\* The remote address of the row under analysis is the unspecified address
\* (0.0.0.0 or ::) and its remote port is 0.
UnspecifiedRemote ==
    /\ netIn.remotePort = 0
    /\ IsUnspecified(parseAddress(netIn.remote))

\* C20: the network monitor emits no event for a row whose remote port is 0
\* and whose remote IP is the unspecified address, whichever table (tcp,
\* tcp6, udp) the row comes from.
C20_NoEventForUnspecifiedRemote ==
    (netOut.done /\ UnspecifiedRemote) => ~netOut.event.emitted

\* The same for the rows of the IPv4 tables only
NoEventForUnspecifiedIPv4Remote ==
    (netOut.done /\ UnspecifiedRemote /\ netIn.table \in {"tcp", "udp"}) =>
        ~netOut.event.emitted

\* A row of tcp6 with remote :: and remote port 0 for which an event is sent
EventForUnspecifiedIPv6Remote ==
    /\ netOut.done
    /\ UnspecifiedRemote
    /\ netIn.table = "tcp6"
    /\ netOut.event.emitted

\* C21: GetAlerts(limit) returns the min(limit, n) most recent alerts of the
\* n-alert store in arrival order (oldest first), all n of them when limit
\* is zero or negative; GET /api/v1/alerts asks for 100 and so returns the
\* 100 most recent alerts at most.
C21_GetAlertsMostRecent ==
    getOut.done =>
        LET n == Len(getIn.store)
        IN  /\ getIn.limit > 0 =>
                  getOut.alerts = LastN(getIn.store, Min(getIn.limit, n))
            /\ getIn.limit <= 0 => getOut.alerts = getIn.store
            /\ getIn.via = "handleAlerts" =>
                  /\ Len(getOut.alerts) <= 100
                  /\ getOut.alerts = LastN(getIn.store, 100)

\* The handler answers from a store of more than 100 alerts: 100 alerts come
\* back, the first of them the 100th most recent.
C21_Witness ==
    /\ getOut.done
    /\ getIn.via = "handleAlerts"
    /\ Len(getIn.store) = 102
    /\ Len(getOut.alerts) = 100
    /\ getOut.alerts[1] = 3
    /\ getOut.alerts[100] = 102

\* C22: when the client's endpoint or its API key is empty, every operation
\* returns the not-configured error and makes no HTTP request.
C22_NotConfiguredNoRequest ==
    (sinkOut.done /\ (sinkIn.base = "" \/ sinkIn.api_key = "")) =>
        /\ sinkOut.err = "sweet security client not configured"
        /\ sinkOut.requests = << >>

\* A client with an endpoint and no key that was asked to send an alert
C22_Witness ==
    /\ sinkOut.done
    /\ sinkIn.base # ""
    /\ sinkIn.api_key = ""
    /\ sinkIn.op = "SendAlert"
    /\ sinkOut.err = "sweet security client not configured"

\* The server answered the request of the operation with a status
SinkAnswered == sinkOut.done /\ sinkOut.requests # << >> /\ sinkIn.status # 0

\* C23: for each of the four operations, an answer with a status in 200..299
\* is reported as success (no error) and an answer with any other status as
\* failure.
C23_AnyTwoXXIsSuccess ==
    SinkAnswered =>
        (sinkOut.err = "" <=> (sinkIn.status >= 200 /\ sinkIn.status <= 299))

\* The same for the three operations that go through sendJSON
TwoXXIsSuccessForSendJSON ==
    (SinkAnswered /\ sinkIn.op # "HealthCheck") =>
        (sinkOut.err = "" <=> (sinkIn.status >= 200 /\ sinkIn.status <= 299))

\* The step is a monitor's send that finds the Collector's buffer full: the
\* event is counted as emitted and the channel is left as it was.
EmitOnFullBuffer ==
    /\ Len(eventChan) >= CollectorBuf
    /\ emitted' = emitted + 1
    /\ eventChan' = eventChan

\* C24: when the Collector's buffer is full a monitor's send does not block
\* (the send is always possible for a running monitor), the event is dropped
\* and the monitor keeps running, and a drop counter is incremented.  The
\* agent's only drop counter is the Collector's eventsDropped.
C24_DropIsCounted ==
    /\ [](\A m \in monRunning :
            (AgentAlive /\ emitted < MaxEmit) => ENABLED Emit(m))
    /\ [][EmitOnFullBuffer =>
            /\ monRunning' = monRunning
            /\ eventsDropped' = eventsDropped + 1]_vars

\* The first two parts of C24 alone: the send on a full buffer does not
\* block, drops the event and leaves the monitor running.
DropDoesNotBlock ==
    /\ [](\A m \in monRunning :
            (AgentAlive /\ emitted < MaxEmit) => ENABLED Emit(m))
    /\ [][EmitOnFullBuffer => monRunning' = monRunning]_vars

\* The step is evaluateEvent offering an alert while alertChan is full.
OfferOnFullQueue ==
    /\ evalPending # << >>
    /\ Len(alertChan) >= cfg.AlertBufferSize
    /\ evalPending' = Tail(evalPending)

\* C25: the alert queue never holds more than AlertBufferSize alerts; the
\* event processor never blocks on it (while it has an alert to offer the
\* offer can be made, and once it has none it takes the next event); and an
\* alert offered to a full queue is dropped, the queue staying as it is.
C25_FullAlertQueueDrops ==
    /\ [](Len(alertChan) <= cfg.AlertBufferSize)
    /\ [](evalPending # << >> => ENABLED EvaluateOffer)
    /\ []((evalPending = << >> /\ eventBuffer # << >>) => ENABLED ProcessEvents)
    /\ [][OfferOnFullQueue => alertChan' = alertChan]_vars

\* The first alert of an event with two alerts fills the alert queue and the
\* processor has finished the event: the second alert was offered to the
\* full queue and is in no queue.
C25_Witness ==
    /\ cfg.AlertBufferSize = 1
    /\ Len(alertChan) = 1
    /\ alertChan[1].rule_id = "APSS-002"
    /\ evalPending = << >>
    /\ \A i \in 1..Len(alerts) : alerts[i].event_ids # alertChan[1].event_ids

\* How many offers of a scan are events of the given type for the pid
OffersOf(scan, type, pid) ==
    Cardinality({i \in 1..Len(scan.offers) :
                    /\ scan.offers[i].event.type = type
                    /\ scan.offers[i].event.pid = pid})

\* The exit events a scan offers are right: one, at INFO, for each pid of
\* the prior snapshot that is not listed, none for any other pid.
ExitsExactlyOnce(scan) ==
    /\ \A p \in Pids :
          OffersOf(scan, "process_exit", p) =
              (IF p \in scan.prior \ scan.listing THEN 1 ELSE 0)
    /\ \A i \in 1..Len(scan.offers) :
          scan.offers[i].event.type = "process_exit" =>
              scan.offers[i].event.severity = SeverityInfo

\* C26: in every scan the process monitor offers process_start exactly once
\* for each pid that is listed now and absent from the prior snapshot, and
\* process_exit at INFO exactly once for each pid of the prior snapshot that
\* is not listed now; a pid in both gets no event.
C26_StartAndExitExactlyOnce ==
    \A k \in 1..Len(procScans) :
        procScans[k].ok =>
            /\ \A p \in Pids :
                  OffersOf(procScans[k], "process_start", p) =
                      (IF p \in procScans[k].listing \ procScans[k].prior
                       THEN 1 ELSE 0)
            /\ ExitsExactlyOnce(procScans[k])

\* C26 as amended: process_start is offered exactly once for each pid that
\* is listed now, absent from the prior snapshot and readable; a pid whose
\* /proc entries cannot be read gets no event and stays out of the snapshot.
C26_StartForReadablePids ==
    /\ \A k \in 1..Len(procScans) :
          /\ procScans[k].ok =>
                /\ \A p \in Pids :
                      OffersOf(procScans[k], "process_start", p) =
                          (IF p \in (procScans[k].listing \ procScans[k].prior)
                                        \ procScans[k].unreadable
                           THEN 1 ELSE 0)
                /\ ExitsExactlyOnce(procScans[k])
          /\ ~procScans[k].ok => procScans[k].offers = << >>
    /\ procScans # << >> =>
          LET last == procScans[Len(procScans)]
          IN  knownProcs =
                  IF last.ok
                  THEN (last.prior \cup (last.listing \ last.unreadable))
                           \cap last.listing
                  ELSE last.prior

\* A scan that offers a start for one pid and an exit for the other, after a
\* scan in which a pid was listed in both snapshots and got no event.
C26_Witness ==
    \E k \in 2..Len(procScans) :
        /\ procScans[k].ok
        /\ OffersOf(procScans[k], "process_start", 2) = 1
        /\ OffersOf(procScans[k], "process_exit", 1) = 1
        /\ procScans[k - 1].ok
        /\ 1 \in procScans[k - 1].prior \cap procScans[k - 1].listing
        /\ procScans[k - 1].offers = << >>

\* How many times a scan analysed the key
AnalysedTimes(scan, key) ==
    Cardinality({i \in 1..Len(scan.analysed) : scan.analysed[i] = key})

\* C27: in every scan the network monitor analyses a row exactly when its
\* key is among the rows read now and absent from the prior snapshot, once;
\* it offers events only for rows it analysed (none for a row that has gone);
\* and after the scan the snapshot is the set of keys read, so that a key
\* that went and came back is new again.
C27_AnalysedWhenNew ==
    /\ \A k \in 1..Len(netScans) :
          /\ \A key \in KeysOf(ScanRows) :
                AnalysedTimes(netScans[k], key) =
                    (IF key \in KeysOf(netScans[k].read) \ netScans[k].prior
                     THEN 1 ELSE 0)
          /\ \A i \in 1..Len(netScans[k].offers) :
                /\ AnalysedTimes(netScans[k], netScans[k].offers[i].key) = 1
                /\ netScans[k].offers[i].event.type \in
                       {"network_connect", "network_listen"}
          /\ k > 1 => netScans[k].prior = KeysOf(netScans[k - 1].read)
    /\ netScans # << >> => knownConns = KeysOf(netScans[Len(netScans)].read)

\* A key is analysed, is then absent from a scan, and is analysed again when
\* it is back.
C27_Witness ==
    /\ Len(netScans) = 3
    /\ \E key \in KeysOf(ScanRows) :
          /\ AnalysedTimes(netScans[1], key) = 1
          /\ key \notin KeysOf(netScans[2].read)
          /\ netScans[2].offers = << >>
          /\ AnalysedTimes(netScans[3], key) = 1

\* The pid is listed in every successful process scan from scan i + 1 to j
PidStaysPresent(pid, i, j) ==
    \A k \in (i + 1)..j : procScans[k].ok => pid \in procScans[k].listing

\* The key is among the rows read in every network scan from i + 1 to j
KeyStaysPresent(key, i, j) ==
    \A k \in (i + 1)..j : key \in KeysOf(netScans[k].read)

\* The known-set as it was after process scan i
KnownProcsAfter(i) ==
    IF i = Len(procScans) THEN knownProcs ELSE procScans[i + 1].prior

\* The known-set as it was after network scan i
KnownConnsAfter(i) ==
    IF i = Len(netScans) THEN knownConns ELSE netScans[i + 1].prior

\* C28: a process or connection whose event is offered is in its monitor's
\* known-set, whether the offer was sent or dropped; and an event whose offer
\* was dropped is not offered again by any later scan for as long as the
\* process stays listed (the connection stays among the rows read).
C28_DroppedOfferNotRepeated ==
    /\ \A i \in 1..Len(procScans) :
       \A n \in 1..Len(procScans[i].offers) :
          LET o == procScans[i].offers[n]
          IN  o.event.type = "process_start" =>
                 /\ o.event.pid \in KnownProcsAfter(i)
                 /\ ~o.sent =>
                       \A j \in (i + 1)..Len(procScans) :
                           PidStaysPresent(o.event.pid, i, j) =>
                               OffersOf(procScans[j], "process_start", o.event.pid) = 0
    /\ \A i \in 1..Len(netScans) :
       \A n \in 1..Len(netScans[i].offers) :
          LET o == netScans[i].offers[n]
          IN  /\ o.key \in KnownConnsAfter(i)
              /\ ~o.sent =>
                    \A j \in (i + 1)..Len(netScans) :
                        KeyStaysPresent(o.key, i, j) =>
                            /\ AnalysedTimes(netScans[j], o.key) = 0
                            /\ \A m \in 1..Len(netScans[j].offers) :
                                  netScans[j].offers[m].key # o.key

\* The start of pid 2 was dropped in the first process scan and the event of
\* a connection was dropped in the first network scan; each is still present
\* at the next scan of its monitor, which offers nothing for it.
C28_Witness ==
    /\ Len(procScans) = 2
    /\ Len(netScans) = 2
    /\ \E n \in 1..Len(procScans[1].offers) :
          /\ procScans[1].offers[n].event = StartEvent(2)
          /\ ~procScans[1].offers[n].sent
    /\ procScans[2].ok
    /\ 2 \in procScans[2].listing
    /\ OffersOf(procScans[2], "process_start", 2) = 0
    /\ \E n \in 1..Len(netScans[1].offers) :
          /\ ~netScans[1].offers[n].sent
          /\ netScans[1].offers[n].key \in KeysOf(netScans[2].read)
          /\ AnalysedTimes(netScans[2], netScans[1].offers[n].key) = 0

\* The four bytes a.b.c.d of the remote address of the row under analysis
\* when it is an IPv4 address (also one written ::ffff:a.b.c.d), else none
RemoteOctets == To4(parseAddress(netIn.remote))

\* The remote address is loopback (127/8, ::1), private (10/8, 172.16/12,
\* 192.168/16), link-local (169.254/16) or unspecified (0.0.0.0, ::)
RemoteIsLocal ==
    IF RemoteOctets # NilIP
    THEN \/ RemoteOctets[1] = 127
         \/ RemoteOctets[1] = 10
         \/ RemoteOctets[1] = 172 /\ RemoteOctets[2] \in 16..31
         \/ RemoteOctets[1] = 192 /\ RemoteOctets[2] = 168
         \/ RemoteOctets[1] = 169 /\ RemoteOctets[2] = 254
         \/ RemoteOctets = <<0, 0, 0, 0>>
    ELSE parseAddress(netIn.remote) \in {IPv6unspecified, IPv6loopback}

EstablishedExternal == netIn.state = "ESTABLISHED" /\ ~RemoteIsLocal

\* The severity levels that apply to the row under analysis
ApplicableSeverities ==
    {SeverityInfo}
        \cup (IF EstablishedExternal THEN {SeverityLow} ELSE {})
        \cup (IF netIn.localPort \in SuspiciousPorts \/ netIn.remotePort \in SuspiciousPorts
              THEN {SeverityHigh} ELSE {})
        \cup (IF /\ EstablishedExternal
                 /\ (netIn.localPort \in rsShellPorts \/ netIn.remotePort \in rsShellPorts)
              THEN {SeverityCritical} ELSE {})

HighPathOrChild ==
    \E h \in highPaths :
        \/ fileIn.path = h
        \/ Len(fileIn.path) = Len(h) + 1 /\ SubSeq(fileIn.path, 1, Len(h)) = h

\* C30: the severity of a file event is the operation default (MEDIUM, HIGH
\* for a delete) lifted by the class of the path: CRITICAL for the five
\* critical paths, else HIGH for a high-severity path or a child of one,
\* else MEDIUM for a create of a file with a suspicious extension; and it
\* is never lower than the operation default.
C30_FileSeverity ==
    (fileOut.done /\ fileOut.event.emitted) =>
        LET def == IF fileOut.event.operation = "delete"
                   THEN SeverityHigh ELSE SeverityMedium
            sev == fileOut.event.severity
        IN  /\ sev >= def
            /\ fileIn.path \in fileCriticalPaths => sev = SeverityCritical
            /\ (fileIn.path \notin fileCriticalPaths /\ HighPathOrChild) =>
                  sev = SeverityHigh
            /\ (fileIn.path \notin fileCriticalPaths /\ ~HighPathOrChild) =>
                  sev = def
            /\ (/\ fileIn.path \notin fileCriticalPaths
                /\ ~HighPathOrChild
                /\ fileOut.event.operation = "create"
                /\ Ext(fileIn.path) \in {".sh", ".py", ".pl", ".rb", ".elf", ".so"}) =>
                  sev = SeverityMedium

\* A script created in /etc/cron.d: the path class HIGH wins over the
\* extension's MEDIUM.
C30_Witness ==
    /\ fileOut.done
    /\ fileIn.path = <<"etc", "cron.d", "job.sh">>
    /\ fileOut.event.operation = "create"
    /\ fileOut.event.severity = SeverityHigh

-----------------------------------------------------------------------------
(* The file monitor's baseline *)

\* The FileHash a successful hashFile stores for file f
HashOf(f) ==
    [present |-> TRUE, hash |-> Sha256(f.content), mode |-> f.mode,
     mtime |-> f.mtime, size |-> f.size]

\* handleFsEvent has handled an event whose operation is one of ops
Handled(ops) == fimLast.handled /\ fimLast.event.operation \in ops

\* C31: once handleFsEvent has handled a delete notification the baseline
\* has no entry for the path, and once it has handled a create, modify,
\* rename or chmod notification the baseline has an entry for the path that
\* carries the hash, mode, modification time and size the file had when the
\* notification was handled.
C31_BaselineFollowsNotification ==
    /\ Handled({"delete"}) => WatchedFile \notin DOMAIN baseline
    /\ Handled({"create", "modify", "rename", "chmod"}) =>
         /\ WatchedFile \in DOMAIN baseline
         /\ baseline[WatchedFile] = HashOf(fimLast.seen)

\* The part of C31 the code keeps: the entry is gone after a delete, and
\* after another notification for a file hashFile can hash the entry is
\* that file's.
DeleteForgetsAndHashableRefreshed ==
    /\ Handled({"delete"}) => WatchedFile \notin DOMAIN baseline
    /\ ( /\ Handled({"create", "modify", "rename", "chmod"})
         /\ hashFile(fimLast.seen).present )
       => BaselineEntry(baseline, WatchedFile) = HashOf(fimLast.seen)

\* A rename notification handled when nothing is at the path any more, with
\* the entry of the file that was there still in the baseline
StaleEntryAfterRename ==
    /\ Handled({"rename"})
    /\ fimLast.seen = AbsentFile
    /\ fimLast.before.present
    /\ BaselineEntry(baseline, WatchedFile) = fimLast.before

\* handleFsEvent has handled a notification for a regular file above the
\* size limit
HandledLarge ==
    /\ Handled({"create", "modify", "rename", "chmod"})
    /\ fimLast.seen.kind = "regular"
    /\ fimLast.seen.size > MaxHashSize

\* C32: once handleFsEvent has handled a notification for a regular file
\* larger than 10 MiB, the baseline has no entry for it, whether or not it
\* had one before, and the event sent for the notification carries no new
\* hash.
C32_LargeFileHasNoEntry ==
    HandledLarge =>
        /\ WatchedFile \notin DOMAIN baseline
        /\ fimLast.event.emitted
        /\ fimLast.event.new_hash = ""

\* The part of C32 the code keeps: a file above the limit is not hashed, its
\* notification still produces an event, and a file that had no entry gets
\* none.
LargeFileNotHashed ==
    HandledLarge =>
        /\ fimLast.event.emitted
        /\ fimLast.event.new_hash = ""
        /\ ~fimLast.before.present => WatchedFile \notin DOMAIN baseline

\* A file that was in the baseline and has grown past the limit: its old
\* entry is still there after the notification
StaleEntryAfterGrowth ==
    /\ HandledLarge
    /\ fimLast.before.present
    /\ BaselineEntry(baseline, WatchedFile) = fimLast.before

-----------------------------------------------------------------------------
(* Payloads, severities and event ids on the way through the Aggregator *)

\* The payload pointers of event e that are not nil
PayloadsOf(e) == {k \in {"process", "network", "file"} : e[k].present}

\* C33: every event on the Aggregator's event queue has exactly one payload
\* among process, network and file.
C33_ExactlyOnePayload ==
    \A i \in 1..Len(eventBuffer) :
        Cardinality(PayloadsOf(eventBuffer[i])) = 1

\* An admitted event, answered 202, that carries no payload at all
AdmittedWithoutPayload ==
    /\ response.status = 202
    /\ \E i \in 1..Len(eventBuffer) : PayloadsOf(eventBuffer[i]) = {}

\* The Severity value a severity label stands for
SeverityLevel(label) ==
    CASE label = "CRITICAL" -> SeverityCritical
      [] label = "HIGH" -> SeverityHigh
      [] label = "MEDIUM" -> SeverityMedium
      [] label = "LOW" -> SeverityLow
      [] label = "INFO" -> SeverityInfo
      [] OTHER -> SeverityUnknown

\* C34: the severity the Collector serializes, the severity the Aggregator
\* counts the event under and the severity of the object relayed to the sink
\* all stand for the Severity value the monitor gave the event.
C34_SeverityPreserved ==
    /\ pipe.stage \in {"posted", "admitted", "counted"} =>
         SeverityLevel(pipe.body.event.severity) = pipe.event.severity
    /\ pipe.stage \in {"admitted", "counted"} =>
         /\ SeverityLevel(pipe.admitted.severity) = pipe.event.severity
         /\ pipe.relayed # NoSweetEvent =>
              SeverityLevel(pipe.relayed.severity) = pipe.event.severity
    /\ pipe.stage = "counted" =>
         SeverityLevel(pipe.counted) = pipe.event.severity

\* A CRITICAL event of a monitor has been serialized, admitted, relayed and
\* counted
C34_Witness ==
    /\ pipe.stage = "counted"
    /\ pipe.event.severity = SeverityCritical
    /\ pipe.body.event.severity = "CRITICAL"
    /\ pipe.relayed.severity = "CRITICAL"
    /\ pipe.counted = "CRITICAL"

\* The alerts evaluateEvent still has to offer, those on the alert queue and
\* those in the retention store
AlertsAnywhere == Range(evalPending) \cup Range(alertChan) \cup Range(alerts)

\* C35: every alert that is waiting to be offered, on the alert queue or in
\* the retention store has a non-empty event_ids list, and every id in the
\* list is the id of an event IngestEvent put on the event queue; an event
\* answered 503 has no alert.
C35_AlertsReferenceAdmitted ==
    \A a \in AlertsAnywhere :
        /\ a.event_ids # << >>
        /\ \A i \in 1..Len(a.event_ids) : a.event_ids[i] \in admitted

\* An alert is in the store after one of the two requests was refused with
\* 503
C35_Witness ==
    /\ alerts # << >>
    /\ requests = 2
    /\ Cardinality(admitted) = 1
    /\ response.status = 503
    /\ \A h \in Handlers : handlers[h].pc = "idle"

\* C37: every relay the ingest handler started and that has run carried its
\* POST to the sink out, whenever the handler returned.
C37_RelayCompletes == sinkCalls \subseteq delivered

\* A relay ran after its request's context was cancelled: SendEvent was
\* invoked and no POST was carried out
RelayCancelledByRequestEnd ==
    /\ sinkCalls # {}
    /\ delivered = {}
    /\ relays = {}

\* A relay may run while its request's context is still live, and then its
\* POST is carried out.
RelayBeforeCancelDelivers ==
    [][RelaySendEvent =>
         \A r \in relays \ relays' :
            r \notin cancelled => r \in delivered']_vars

-----------------------------------------------------------------------------
(* The agents map and its readers *)

\* C36: the AgentInfo values a caller received from GetAgents read the same
\* ever after, whatever IngestEvent calls and sweeps come later.
C36_GetAgentsReturnsCopy == snapshot.taken => snapshot.cur = snapshot.at

\* A caller holds the record of a1 with event_count 1 and reads 2 through
\* it after one more IngestEvent
ReturnedRecordChanged ==
    /\ snapshot.taken
    /\ "a1" \in DOMAIN snapshot.at
    /\ snapshot.at["a1"].event_count = 1
    /\ snapshot.cur["a1"].event_count = 2

\* What a sweep does to the values a caller holds: nothing.
SweepLeavesReturnedRecords ==
    [][TrackCheckAgentHealth => snapshot'.cur = snapshot.cur]_vars

\* C38: the event_count of every record in the agents map is the number of
\* IngestEvent calls made for its agent_id since the record was created, and
\* an IngestEvent call for an agent_id that has no record (never seen, or
\* removed by the sweep) creates one with event_count 1 and connected_at the
\* time of the call.
C38_EventCountCountsCalls ==
    /\ [](\A a \in DOMAIN agents : agents[a].event_count = calls[a])
    /\ [][\A a \in DOMAIN agents' \ DOMAIN agents :
             /\ agents'[a].event_count = 1
             /\ agents'[a].connected_at = now]_vars

\* The record of a1 a caller received has been removed by the sweep, and a
\* later event of a1 has created a record with event_count 1 and a later
\* connected_at
C38_Witness ==
    /\ snapshot.taken
    /\ "a1" \in DOMAIN snapshot.at
    /\ snapshot.at["a1"].event_count = 2
    /\ "a1" \notin snapshot.live
    /\ "a1" \in DOMAIN agents
    /\ agents["a1"].event_count = 1
    /\ agents["a1"].connected_at > snapshot.at["a1"].connected_at

-----------------------------------------------------------------------------
(* Re-submission of an injected pod *)

\* How often name occurs in list
RECURSIVE Occurrences(_, _)
Occurrences(list, name) ==
    IF list = << >> THEN 0
    ELSE (IF Head(list) = name THEN 1 ELSE 0) + Occurrences(Tail(list), name)

\* The webhook has answered the re-submission of a pod to which the patch
\* it returned before has been applied
Resubmitted == whOut.done /\ whOut.submission = 2

\* C39: a pod to which a returned patch has been applied is allowed without
\* a patch when it is submitted again, so the pod keeps one apss-agent
\* container, one apss-proc volume and one injected annotation.
C39_InjectionIdempotent ==
    Resubmitted =>
        /\ ~whOut.response.err
        /\ whOut.response.allowed
        /\ ~whOut.response.patch.present
        /\ whOut.response.patch.ops = << >>
        /\ Occurrences(whIn.raw.containers.value, "apss-agent") = 1
        /\ Occurrences(whIn.raw.volumes.value, "apss-proc") = 1
        /\ Cardinality({kv \in whIn.raw.annotations.value :
                          kv[1] = "apss.invisible.tech/injected"}) = 1

\* The patched pod with containers app and apss-agent has been submitted
\* again and allowed
C39_Witness ==
    /\ Resubmitted
    /\ whIn.raw.containers.value = <<"app", "apss-agent">>
    /\ whIn.raw.volumes.value = <<"data", "apss-proc">>
    /\ whIn.raw.shareProcessNamespace = Opt(TRUE)
    /\ whOut.response.allowed

=============================================================================
